---- MODULE Spec2Model ----
(***************************************************************************)
(* Model of the zero-hour game server (src/src/server/index.ts): the       *)
(* socket.io connection handlers (join, command, disconnect), the tick     *)
(* loop (updateGame) and the snapshot broadcast (broadcastGameState).      *)
(*                                                                         *)
(* Each action is one run-to-completion callback of the Node event loop.   *)
(* The variables out, lastOp, lastSocket, invoked and error describe the   *)
(* callback that ran last: what it emitted, which command handler it       *)
(* called and whether an exception left it.  iteration, loopBroadcasts     *)
(* and commands are history counters.                                      *)
(*                                                                         *)
(* The second part models the entity store and the system pipeline         *)
(* (src/src/core/Entity.ts, src/unnamed/part_000): EntityFactory,          *)
(* EntityManager, the three systems and SystemManager.                     *)
(***************************************************************************)
EXTENDS Integers, Sequences, FiniteSets, TLC

VARIABLES
    conn,            \* socket id -> "idle" | "open" | "closed" (socket.io connection)
    players,         \* GameServer.players: Map<socket id, player>
    gameState,       \* GameServer.gameState: tick, entities, players, status
    alive,           \* FALSE once an exception left a callback uncaught
    out,             \* messages emitted by the last callback
    lastOp,          \* the callback that ran last
    lastSocket,      \* the socket it ran for ("none" for the timer)
    lastCommand,     \* the command it was given (NoCommand if it was given none)
    invoked,         \* the command handler it called ("none" if none)
    error,           \* the exception that left it ("none" if none)
    iteration,       \* number of updateGame calls so far
    loopBroadcasts,  \* number of broadcasts made by updateGame so far
    commands,        \* number of command events handled so far
    timers,          \* number of setInterval timers startGameLoop has set
    arrived,         \* socket id -> kinds of the commands that arrived on it, in order
    dispatched       \* socket id -> <<arrival index, handler>> of each handler call, in order

serverVars == <<conn, players, gameState, alive, out, lastOp, lastSocket,
                lastCommand, invoked, error, iteration, loopBroadcasts, commands,
                timers, arrived, dispatched>>

(* The command log is written by CommandLogged only *)
logVars == <<arrived, dispatched>>

VARIABLES
    nextId,          \* EntityFactory.nextId
    issued,          \* the ids the factory has returned, in order
    objects,         \* entity id -> its components Map (kind -> component)
    entities,        \* EntityManager.entities: the stored ids in Map (insertion) order
    retired,         \* the ids that were stored and then removed or cleared
    systems,         \* SystemManager.systems
    ecsOp,           \* the entity/system operation that ran last
    argId,           \* its entity id or system name argument ("none" if none)
    argKinds,        \* its componentTypes argument (<<>> if none)
    argUnit,         \* the arguments of createUnit (NoUnitArgs if none)
    returned,        \* the entity id it returned ("undefined", "none" if no entity)
    result,          \* the entity list the last query returned
    prevResult,      \* the list the query before it returned, if the store
                     \* membership was not touched in between (<<>> otherwise)
    calls,           \* the system.update calls of the last SystemManager.update
    steps,           \* number of attach and update operations so far
    prevSystems      \* SystemManager.systems as the last call found it

ecsVars == <<nextId, issued, objects, entities, retired, systems, ecsOp, argId, argKinds,
             argUnit, returned, result, prevResult, calls, steps, prevSystems>>

VARIABLES
    cSockets,        \* the sockets connect() created, in order: state, promise, timer,
                     \* start time, and whether join was emitted on it
    cSocket,         \* NetworkManager.socket: index into cSockets, 0 for null
    cConnected,      \* NetworkManager.connected
    cPlayerId,       \* NetworkManager.playerId
    messageHandlers, \* NetworkManager.messageHandlers: kind -> handlers in push order
    messageQueue,    \* NetworkManager.messageQueue
    now,             \* the client's clock, in ms
    clientOp,        \* the NetworkManager method or socket callback that ran last
    cArg,            \* the message it was given ("none" fields if none)
    cOut,            \* what it emitted to the server, in order
    handlerCalls,    \* the handler calls it made, in order: <<handler, data>>
    cError,          \* the exception that left it ("none" if none)
    registrations,   \* number of onMessage calls so far
    inbound,         \* number of inbound messages so far
    arrivals,        \* every message the socket delivered so far, in order
    handedOut        \* the messages the processMessages calls so far returned, in order

messageLog == <<arrivals, handedOut>>

clientVars == <<cSockets, cSocket, cConnected, cPlayerId, messageHandlers, messageQueue,
                now, clientOp, cArg, cOut, handlerCalls, cError, registrations,
                inbound, messageLog>>

VARIABLES
    camera,          \* Renderer.camera: x, y, and zoom in tenths
    cameraOp,        \* the camera mutator that ran last
    cameraCalls      \* number of camera mutator calls so far

rendererVars == <<camera, cameraOp, cameraCalls>>

VARIABLES
    isRunning,       \* GameClient.isRunning
    updateCallback,  \* GameLoop.updateCallback is set (TRUE) or null (FALSE)
    animationId,     \* GameLoop.animationId, 0 for null
    pending,         \* the animation frames requested and neither run nor cancelled
    frames,          \* number of animation frames requested so far
    loopOp,          \* the GameClient call or frame callback that ran last
    work             \* the phases of update it ran, each with isRunning at that time

gameClientVars == <<isRunning, updateCallback, animationId, pending, frames, loopOp, work>>

uiVars == <<rendererVars, gameClientVars>>

vars == <<serverVars, ecsVars, clientVars, uiVars>>

---------------------------------------------------------------------------
(* Bounds of the model *)

MaxIterations == 31

MaxLoopIterations == 120

MaxCommands == 2

(* Commands and loop iterations followed when the arrivals are written down *)
MaxLoggedCommands == 3

MaxLoggedIterations == 1

MaxEntities == 2

MaxSystems == 2

MaxSteps == 2

(* Entities built and system.update calls made when the systems are called
   directly *)
MaxSpawned == 2

MaxDirectCalls == 2

(* connect() calls, clock steps of half a connection timeout, onMessage calls
   and inbound messages of the client *)
MaxAttempts == 2

MaxClockSteps == 3

MaxRegistrations == 3

MaxInbound == 2

(* Calls of the renderer's camera mutators *)
MaxCameraCalls == 3

(* Animation frames the client's loop requests *)
MaxFrames == 8

(* Socket ids handed out by socket.io; each id is used by one connection. *)
Sockets == {"sockAAAA1", "sockBBBB2"}

(* The payload of a join event: an object whose name and faction may be
   missing, or no object at all. *)
JoinPayloads ==
    { [present |-> TRUE, name |-> "Ann", faction |-> "USA"],
      [present |-> TRUE, name |-> "", faction |-> ""],
      [present |-> FALSE, name |-> "", faction |-> ""] }

(* Values of Math.random(), in thousandths: 0 <= r < 1000 *)
RandomDraws == {0, 999}

(* The four kinds the server knows, and one it does not, which the client
   sends (GameClient.clearSelection) *)
CommandTypes == {"move", "attack", "build", "select", "clearSelection"}

(* The argument of a command event: an object with a type and possibly a
   data payload, or no object at all. *)
Commands ==
    { [present |-> TRUE, type |-> t, hasData |-> d] :
          t \in CommandTypes, d \in BOOLEAN }
    \cup { [present |-> FALSE, type |-> "undefined", hasData |-> FALSE] }

NoCommand == [present |-> FALSE, type |-> "none", hasData |-> FALSE]

---------------------------------------------------------------------------
(* Program constants *)

BROADCAST_EVERY == 30

colors ==
    <<"#ff0000", "#00ff00", "#0000ff", "#ffff00",
      "#ff00ff", "#00ffff", "#ff8000", "#8000ff">>

---------------------------------------------------------------------------
(* Map<K, V> as a function on its key set *)

MapSet(m, k, v) == [x \in (DOMAIN m) \cup {k} |-> IF x = k THEN v ELSE m[x]]

MapDelete(m, k) == [x \in (DOMAIN m) \ {k} |-> m[x]]

EmptyMap == [x \in {} |-> x]

---------------------------------------------------------------------------
(* socket.io emitters: the set of messages one emit call delivers *)

Connected == {s \in Sockets : conn[s] = "open"}

Msg(to, event, payload) == [to |-> to, event |-> event, payload |-> payload]

(* io.emit: every connected socket *)
IoEmit(event, payload) == {Msg(s, event, payload) : s \in Connected}

(* socket.emit: that socket *)
SocketEmit(socket, event, payload) == {Msg(socket, event, payload)}

(* socket.broadcast.emit: every connected socket but the sender *)
SocketBroadcastEmit(socket, event, payload) ==
    {Msg(s, event, payload) : s \in Connected \ {socket}}

---------------------------------------------------------------------------
(* GameServer *)

(* getRandomColor: colors[Math.floor(Math.random() * colors.length)], with
   Math.random() = r / 1000 *)
getRandomColor(r) == colors[((r * Len(colors)) \div 1000) + 1]

(* The player object handlePlayerJoin builds *)
NewPlayer(socket, playerData, random) ==
    [ id |-> socket,
      name |-> IF playerData.name # "" THEN playerData.name
               ELSE "Player_" \o SubSeq(socket, 1, 6),
      faction |-> IF playerData.faction # "" THEN playerData.faction ELSE "GLA",
      resources |-> [credits |-> 1000, power |-> 0, powerCapacity |-> 100],
      isActive |-> TRUE,
      color |-> getRandomColor(random) ]

(* broadcastGameState: increments the tick, then emits the snapshot to all *)
broadcastGameState(gs) ==
    LET g == [gs EXCEPT !.tick = @ + 1]
    IN  [gameState |-> g, emitted |-> IoEmit("gameState", g)]

(* The four command handlers only log; the log line reads command.data.<field>,
   which throws a TypeError when command.data is undefined. *)
handleMoveCommand(player, command) ==
    IF command.hasData THEN "none" ELSE "TypeError"

handleAttackCommand(player, command) ==
    IF command.hasData THEN "none" ELSE "TypeError"

handleBuildCommand(player, command) ==
    IF command.hasData THEN "none" ELSE "TypeError"

handleSelectCommand(player, command) ==
    IF command.hasData THEN "none" ELSE "TypeError"

(* The switch with the break after the move case missing: a move command
   runs on into the attack handler *)
DispatchMissingBreak(player, command) ==
    CASE command.type = "move" ->
            [invoked |-> "attack", error |-> handleAttackCommand(player, command)]
      [] command.type = "attack" ->
            [invoked |-> "attack", error |-> handleAttackCommand(player, command)]
      [] command.type = "build" ->
            [invoked |-> "build", error |-> handleBuildCommand(player, command)]
      [] command.type = "select" ->
            [invoked |-> "select", error |-> handleSelectCommand(player, command)]
      [] OTHER ->
            [invoked |-> "none", error |-> "none"]

(* The switch of handleGameCommand: the handler called and its outcome *)
Dispatch(player, command) ==
    CASE command.type = "move" ->
            [invoked |-> "move", error |-> handleMoveCommand(player, command)]
      [] command.type = "attack" ->
            [invoked |-> "attack", error |-> handleAttackCommand(player, command)]
      [] command.type = "build" ->
            [invoked |-> "build", error |-> handleBuildCommand(player, command)]
      [] command.type = "select" ->
            [invoked |-> "select", error |-> handleSelectCommand(player, command)]
      [] OTHER ->
            [invoked |-> "none", error |-> "none"]

(* The record of the callback that runs: which one, for which socket, with
   which command *)
Ran(op, socket, command) ==
    /\ lastOp' = op
    /\ lastSocket' = socket
    /\ lastCommand' = command

Threw(e) ==
    /\ error' = e
    /\ alive' = (e = "none")

(* io.on('connection'): a new socket with a fresh id, once the server listens *)
Connection(socket) ==
    /\ alive
    /\ timers > 0
    /\ conn[socket] = "idle"
    /\ conn' = [conn EXCEPT ![socket] = "open"]
    /\ Ran("connection", socket, NoCommand)
    /\ Threw("none")
    /\ out' = {}
    /\ invoked' = "none"
    /\ UNCHANGED <<players, gameState, iteration, loopBroadcasts, commands>>
    /\ UNCHANGED <<timers, logVars, ecsVars, clientVars, uiVars>>

(* handlePlayerJoin with the snapshot sent before the player is stored *)
handlePlayerJoinSnapshotFirst(socket, playerData, random) ==
    /\ Ran("join", socket, NoCommand)
    /\ invoked' = "none"
    /\ UNCHANGED <<conn, iteration, loopBroadcasts, commands>>
    /\ IF ~playerData.present
       THEN /\ Threw("TypeError")
            /\ out' = {}
            /\ UNCHANGED <<players, gameState>>
       ELSE LET player == NewPlayer(socket, playerData, random)
                gs == [gameState EXCEPT !.players = MapSet(@, socket, player)]
            IN  /\ players' = MapSet(players, socket, player)
                /\ gameState' = gs
                /\ out' = SocketEmit(socket, "gameState", gameState)
                          \cup SocketBroadcastEmit(socket, "playerJoin",
                                                   [player |-> player])
                /\ Threw("none")

(* handlePlayerJoin with the snapshot sent through io.emit *)
handlePlayerJoinSnapshotToAll(socket, playerData, random) ==
    /\ Ran("join", socket, NoCommand)
    /\ invoked' = "none"
    /\ UNCHANGED <<conn, iteration, loopBroadcasts, commands>>
    /\ IF ~playerData.present
       THEN /\ Threw("TypeError")
            /\ out' = {}
            /\ UNCHANGED <<players, gameState>>
       ELSE LET player == NewPlayer(socket, playerData, random)
                gs == [gameState EXCEPT !.players = MapSet(@, socket, player)]
            IN  /\ players' = MapSet(players, socket, player)
                /\ gameState' = gs
                /\ out' = IoEmit("gameState", gs)
                          \cup SocketBroadcastEmit(socket, "playerJoin",
                                                   [player |-> player])
                /\ Threw("none")

(* handlePlayerJoin storing the player in the snapshot's map only *)
handlePlayerJoinSnapshotOnly(socket, playerData, random) ==
    /\ Ran("join", socket, NoCommand)
    /\ invoked' = "none"
    /\ UNCHANGED <<conn, iteration, loopBroadcasts, commands>>
    /\ IF ~playerData.present
       THEN /\ Threw("TypeError")
            /\ out' = {}
            /\ UNCHANGED <<players, gameState>>
       ELSE LET player == NewPlayer(socket, playerData, random)
                gs == [gameState EXCEPT !.players = MapSet(@, socket, player)]
            IN  /\ players' = players
                /\ gameState' = gs
                /\ out' = SocketEmit(socket, "gameState", gs)
                          \cup SocketBroadcastEmit(socket, "playerJoin",
                                                   [player |-> player])
                /\ Threw("none")

handlePlayerJoin(socket, playerData, random) ==
    /\ Ran("join", socket, NoCommand)
    /\ invoked' = "none"
    /\ UNCHANGED <<conn, iteration, loopBroadcasts, commands>>
    /\ IF ~playerData.present
       THEN \* playerData.name throws before anything is stored or sent
            /\ Threw("TypeError")
            /\ out' = {}
            /\ UNCHANGED <<players, gameState>>
       ELSE LET player == NewPlayer(socket, playerData, random)
                gs == [gameState EXCEPT !.players = MapSet(@, socket, player)]
            IN  /\ players' = MapSet(players, socket, player)
                /\ gameState' = gs
                /\ out' = SocketEmit(socket, "gameState", gs)
                          \cup SocketBroadcastEmit(socket, "playerJoin",
                                                   [player |-> player])
                /\ Threw("none")

handleGameCommand(socket, command) ==
    /\ Ran("command", socket, command)
    /\ commands' = commands + 1
    /\ UNCHANGED <<conn, players, iteration, loopBroadcasts>>
    /\ IF socket \notin DOMAIN players
       THEN \* if (!player) return
            /\ invoked' = "none"
            /\ Threw("none")
            /\ out' = {}
            /\ UNCHANGED gameState
       ELSE IF ~command.present
       THEN \* command.type throws
            /\ invoked' = "none"
            /\ Threw("TypeError")
            /\ out' = {}
            /\ UNCHANGED gameState
       ELSE LET d == Dispatch(players[socket], command)
                b == broadcastGameState(gameState)
            IN  /\ invoked' = d.invoked
                /\ Threw(d.error)
                /\ IF d.error = "none"
                   THEN /\ gameState' = b.gameState
                        /\ out' = b.emitted
                   ELSE /\ out' = {}
                        /\ UNCHANGED gameState

(* handlePlayerLeave without gameState.players.delete *)
handlePlayerLeaveKeepsSnapshotEntry(socket) ==
    /\ Ran("disconnect", socket, NoCommand)
    /\ invoked' = "none"
    /\ Threw("none")
    /\ UNCHANGED <<iteration, loopBroadcasts, commands>>
    /\ IF socket \in DOMAIN players
       THEN /\ players' = MapDelete(players, socket)
            /\ UNCHANGED gameState
            /\ out' = SocketBroadcastEmit(socket, "playerLeave",
                                          [playerId |-> socket])
       ELSE /\ out' = {}
            /\ UNCHANGED <<players, gameState>>

(* handlePlayerLeave with the notification outside the if (player) block *)
handlePlayerLeaveAlwaysNotifies(socket) ==
    /\ Ran("disconnect", socket, NoCommand)
    /\ invoked' = "none"
    /\ Threw("none")
    /\ UNCHANGED <<iteration, loopBroadcasts, commands>>
    /\ out' = SocketBroadcastEmit(socket, "playerLeave", [playerId |-> socket])
    /\ IF socket \in DOMAIN players
       THEN /\ players' = MapDelete(players, socket)
            /\ gameState' = [gameState EXCEPT !.players = MapDelete(@, socket)]
       ELSE UNCHANGED <<players, gameState>>

handlePlayerLeave(socket) ==
    /\ Ran("disconnect", socket, NoCommand)
    /\ invoked' = "none"
    /\ Threw("none")
    /\ UNCHANGED <<iteration, loopBroadcasts, commands>>
    /\ IF socket \in DOMAIN players
       THEN /\ players' = MapDelete(players, socket)
            /\ gameState' = [gameState EXCEPT !.players = MapDelete(@, socket)]
            /\ out' = SocketBroadcastEmit(socket, "playerLeave",
                                          [playerId |-> socket])
       ELSE /\ out' = {}
            /\ UNCHANGED <<players, gameState>>

updateGame ==
    LET g == [gameState EXCEPT !.tick = @ + 1]
        due == g.tick % BROADCAST_EVERY = 0
        b == broadcastGameState(g)
    IN  /\ Ran("updateGame", "none", NoCommand)
        /\ invoked' = "none"
        /\ Threw("none")
        /\ iteration' = iteration + 1
        /\ gameState' = IF due THEN b.gameState ELSE g
        /\ out' = IF due THEN b.emitted ELSE {}
        /\ loopBroadcasts' = IF due THEN loopBroadcasts + 1 ELSE loopBroadcasts
        /\ UNCHANGED <<conn, players, commands>>

---------------------------------------------------------------------------
(* Components (src/src/core/Entity.ts) *)

PositionComponent(x, y, z) == [type |-> "position", x |-> x, y |-> y, z |-> z]

VelocityComponent(x, y, z) == [type |-> "velocity", x |-> x, y |-> y, z |-> z]

HealthComponent(current, maximum) ==
    [type |-> "health", current |-> current, maximum |-> maximum]

SpriteComponent(textureId, width, height, rotation) ==
    [type |-> "sprite", textureId |-> textureId, width |-> width,
     height |-> height, rotation |-> rotation]

UnitComponent(unitType, playerId, selected) ==
    [type |-> "unit", unitType |-> unitType, playerId |-> playerId,
     selected |-> selected]

(* Default arguments of the constructors *)
DEFAULT_Z == 0

DEFAULT_SPRITE_SIZE == 64

DEFAULT_ROTATION == 0

UNIT_HEALTH == 100

Range(seq) == {seq[i] : i \in 1..Len(seq)}

---------------------------------------------------------------------------
(* Inputs of the entity operations *)

(* Components callers attach with entity.components.set(c.type, c) *)
AttachValues ==
    { PositionComponent(0, 0, DEFAULT_Z),
      VelocityComponent(10, 5, DEFAULT_Z),
      HealthComponent(50, 100) }

(* Arguments of createUnit *)
UnitArgs ==
    { [x |-> 20, y |-> 20, unitType |-> "infantry", playerId |-> "player1"] }

NoUnitArgs == [x |-> 0, y |-> 0, unitType |-> "none", playerId |-> "none"]

(* componentTypes arguments of getEntitiesWithComponents *)
KindLists ==
    { <<>>, <<"position">>, <<"health">>, <<"position", "velocity">>,
      <<"position", "sprite">>, <<"armor">> }

(* deltaTime arguments, in seconds *)
DeltaTimes == {1, 2}

(* The shortest of them, for the calls whose outcome no deltaTime enters *)
ShortestFrames == {d \in DeltaTimes : \A o \in DeltaTimes : d <= o}

(* A components Map holding the given components under their kinds *)
Components(set) ==
    [k \in {c.type : c \in set} |-> CHOOSE c \in set : c.type = k]

(* Entities callers build with createEntity and components.set before they
   call a system: moving ones, one without velocity, ones with health below,
   at and above the maximum and at or below zero, and boxes that overlap,
   touch along an edge or at a corner, or lie apart *)
SpawnBundles ==
    { Components({PositionComponent(0, 0, DEFAULT_Z), VelocityComponent(10, 5, DEFAULT_Z)}),
      Components({PositionComponent(100, 100, 0), VelocityComponent(-5, -2, 7)}),
      Components({PositionComponent(50, 50, DEFAULT_Z)}) }
    \cup { Components({HealthComponent(c, 100)}) : c \in {-5, 0, 50, 100, 150} }
    \cup { Components({PositionComponent(p[1], p[2], DEFAULT_Z),
                       SpriteComponent("box", p[3], p[3], DEFAULT_ROTATION)}) :
               p \in {<<0, 0, 32>>, <<20, 20, 32>>, <<32, 0, 32>>, <<32, 32, 32>>,
                      <<40, 40, 32>>, <<-20, -20, 64>>} }

(* The entity arrays callers pass to a system: each entity at most once *)
EntityLists(ids) ==
    UNION { {l \in [1..n -> ids] : \A i, j \in 1..n : i # j => l[i] # l[j]} :
               n \in 0..Cardinality(ids) }

---------------------------------------------------------------------------
(* EntityFactory *)

EntityId(n) == "entity_" \o ToString(n)

(* createEntity with the counter read but not advanced *)
createEntityNoIncrement(n) ==
    [nextId |-> n, entity |-> [id |-> EntityId(n + 1), components |-> EmptyMap]]

(* createEntity: id `entity_${++this.nextId}`, an empty components Map *)
createEntity(n) ==
    [nextId |-> n + 1,
     entity |-> [id |-> EntityId(n + 1), components |-> EmptyMap]]

(* createUnit with the health bundle built as HealthComponent(100, 0) *)
createUnitWrongHealth(n, x, y, unitType, playerId) ==
    LET r == createEntity(n)
        c1 == MapSet(r.entity.components, "position", PositionComponent(x, y, DEFAULT_Z))
        c2 == MapSet(c1, "health", HealthComponent(UNIT_HEALTH, 0))
        c3 == MapSet(c2, "sprite",
                     SpriteComponent(unitType \o "_texture", DEFAULT_SPRITE_SIZE,
                                     DEFAULT_SPRITE_SIZE, DEFAULT_ROTATION))
        c4 == MapSet(c3, "unit", UnitComponent(unitType, playerId, FALSE))
    IN  [nextId |-> r.nextId, entity |-> [id |-> r.entity.id, components |-> c4]]

createUnit(n, x, y, unitType, playerId) ==
    LET r == createEntity(n)
        c1 == MapSet(r.entity.components, "position", PositionComponent(x, y, DEFAULT_Z))
        c2 == MapSet(c1, "health", HealthComponent(UNIT_HEALTH, UNIT_HEALTH))
        c3 == MapSet(c2, "sprite",
                     SpriteComponent(unitType \o "_texture", DEFAULT_SPRITE_SIZE,
                                     DEFAULT_SPRITE_SIZE, DEFAULT_ROTATION))
        c4 == MapSet(c3, "unit", UnitComponent(unitType, playerId, FALSE))
    IN  [nextId |-> r.nextId, entity |-> [id |-> r.entity.id, components |-> c4]]

---------------------------------------------------------------------------
(* EntityManager: the Map keeps its keys in insertion order; set on a key
   that is present keeps the key's place *)

addEntity(store, id) ==
    IF id \in Range(store) THEN store ELSE Append(store, id)

(* removeEntity that deletes nothing *)
removeEntityKeeps(store, id) == store

removeEntity(store, id) == SelectSeq(store, LAMBDA e : e # id)

getEntity(store, id) == IF id \in Range(store) THEN id ELSE "undefined"

HasAll(objs, id, componentTypes) ==
    \A k \in Range(componentTypes) : k \in DOMAIN objs[id]

Reverse(seq) == [i \in 1..Len(seq) |-> seq[Len(seq) + 1 - i]]

(* getEntitiesWithComponents matching entities that have some of the kinds *)
getEntitiesWithSomeComponent(store, objs, componentTypes) ==
    SelectSeq(store, LAMBDA e :
        \E k \in Range(componentTypes) : k \in DOMAIN objs[e])

(* getEntitiesWithComponents returning newest first when kinds are given *)
getEntitiesWithComponentsNewestFirst(store, objs, componentTypes) ==
    LET r == SelectSeq(store, LAMBDA e : HasAll(objs, e, componentTypes))
    IN  IF componentTypes = <<>> THEN r ELSE Reverse(r)

getEntitiesWithComponents(store, objs, componentTypes) ==
    SelectSeq(store, LAMBDA e : HasAll(objs, e, componentTypes))

getAllEntities(store) == store

clear(store) == <<>>

---------------------------------------------------------------------------
(* Systems (src/unnamed/part_000).  A system update returns the entity
   objects as it leaves them, what it logged, and the TypeError it threw on
   a component that is missing (which ends its forEach). *)

REGENERATION_RATE == 1

Min(a, b) == IF a < b THEN a ELSE b

MovementSystem ==
    [name |-> "MovementSystem", requiredComponents |-> <<"position", "velocity">>]

HealthSystem ==
    [name |-> "HealthSystem", requiredComponents |-> <<"health">>]

CollisionSystem ==
    [name |-> "CollisionSystem", requiredComponents |-> <<"position", "sprite">>]

Systems == {MovementSystem, HealthSystem, CollisionSystem}

Outcome(objs, log, err) == [objects |-> objs, log |-> log, error |-> err]

(* The forEach step with the z line left out *)
MoveEntityFlat(objs, e, deltaTime) ==
    LET position == objs[e]["position"]
        velocity == objs[e]["velocity"]
        moved == [position EXCEPT !.x = @ + velocity.x * deltaTime,
                                  !.y = @ + velocity.y * deltaTime]
    IN  [objs EXCEPT ![e] = MapSet(@, "position", moved)]

(* One forEach step of MovementSystem.update *)
MoveEntity(objs, e, deltaTime) ==
    LET position == objs[e]["position"]
        velocity == objs[e]["velocity"]
        moved == [position EXCEPT !.x = @ + velocity.x * deltaTime,
                                  !.y = @ + velocity.y * deltaTime,
                                  !.z = @ + velocity.z * deltaTime]
    IN  [objs EXCEPT ![e] = MapSet(@, "position", moved)]

RECURSIVE MovementSystemUpdate(_, _, _)
MovementSystemUpdate(objs, ents, deltaTime) ==
    IF ents = <<>> THEN Outcome(objs, <<>>, "none")
    ELSE LET e == Head(ents)
         IN  IF {"position", "velocity"} \subseteq DOMAIN objs[e]
             THEN MovementSystemUpdate(MoveEntity(objs, e, deltaTime),
                                       Tail(ents), deltaTime)
             ELSE Outcome(objs, <<>>, "TypeError")

(* The forEach step attaching a marker component to an entity that is dead *)
RegenerateEntityReaping(objs, e, deltaTime) ==
    LET health == objs[e]["health"]
        regenerated ==
            IF health.current < health.maximum
            THEN [health EXCEPT !.current =
                     IF health.maximum < @ + REGENERATION_RATE * deltaTime
                     THEN health.maximum ELSE @ + REGENERATION_RATE * deltaTime]
            ELSE health
    IN  IF regenerated.current > 0
        THEN [objs EXCEPT ![e] = MapSet(@, "health", regenerated)]
        ELSE [objs EXCEPT ![e] = MapSet(MapSet(@, "health", regenerated),
                                        "dead", [type |-> "dead"])]

(* One forEach step of HealthSystem.update *)
RegenerateEntity(objs, e, deltaTime) ==
    LET health == objs[e]["health"]
        regenerated ==
            IF health.current < health.maximum
            THEN [health EXCEPT !.current =
                     Min(health.maximum, @ + REGENERATION_RATE * deltaTime)]
            ELSE health
    IN  [objs EXCEPT ![e] = MapSet(@, "health", regenerated)]

(* HealthComponent.isAlive *)
isAlive(health) == health.current > 0

RECURSIVE HealthSystemUpdate(_, _, _, _)
HealthSystemUpdate(objs, ents, deltaTime, log) ==
    IF ents = <<>> THEN Outcome(objs, log, "none")
    ELSE LET e == Head(ents)
         IN  IF "health" \in DOMAIN objs[e]
             THEN LET o == RegenerateEntity(objs, e, deltaTime)
                      l == IF isAlive(o[e]["health"]) THEN log
                           ELSE Append(log, <<"died", e>>)
                  IN  HealthSystemUpdate(o, Tail(ents), deltaTime, l)
             ELSE Outcome(objs, log, "TypeError")

(* checkCollision measuring both extents with the first entity's sprite *)
checkCollisionOneSided(objs, entityA, entityB) ==
    LET posA == objs[entityA]["position"]
        posB == objs[entityB]["position"]
        spriteA == objs[entityA]["sprite"]
    IN  /\ posA.x < posB.x + spriteA.width
        /\ posA.x + spriteA.width > posB.x
        /\ posA.y < posB.y + spriteA.height
        /\ posA.y + spriteA.height > posB.y

(* checkCollision with the comparisons not strict *)
checkCollisionTouching(objs, entityA, entityB) ==
    LET posA == objs[entityA]["position"]
        posB == objs[entityB]["position"]
        spriteA == objs[entityA]["sprite"]
        spriteB == objs[entityB]["sprite"]
    IN  /\ posA.x <= posB.x + spriteB.width
        /\ posA.x + spriteA.width >= posB.x
        /\ posA.y <= posB.y + spriteB.height
        /\ posA.y + spriteA.height >= posB.y

(* CollisionSystem.checkCollision *)
checkCollision(objs, entityA, entityB) ==
    LET posA == objs[entityA]["position"]
        posB == objs[entityB]["position"]
        spriteA == objs[entityA]["sprite"]
        spriteB == objs[entityB]["sprite"]
    IN  /\ posA.x < posB.x + spriteB.width
        /\ posA.x + spriteA.width > posB.x
        /\ posA.y < posB.y + spriteB.height
        /\ posA.y + spriteA.height > posB.y

(* The two loops with the inner one starting over at the first entity *)
RECURSIVE PairsFromEvery(_, _, _)
PairsFromEvery(n, i, j) ==
    IF i > n THEN <<>>
    ELSE IF j > n THEN PairsFromEvery(n, i + 1, 1)
    ELSE (IF i # j THEN <<(<<i, j>>)>> ELSE <<>>) \o PairsFromEvery(n, i, j + 1)

(* The pairs (i, j), i < j, in the order the two loops visit them *)
RECURSIVE PairsFrom(_, _, _)
PairsFrom(n, i, j) ==
    IF i > n THEN <<>>
    ELSE IF j > n THEN PairsFrom(n, i + 1, i + 2)
    ELSE <<(<<i, j>>)>> \o PairsFrom(n, i, j + 1)

RECURSIVE CollidePairs(_, _, _, _)
CollidePairs(objs, ents, pairs, log) ==
    IF pairs = <<>> THEN Outcome(objs, log, "none")
    ELSE LET a == ents[Head(pairs)[1]]
             b == ents[Head(pairs)[2]]
         IN  IF /\ {"position", "sprite"} \subseteq DOMAIN objs[a]
                /\ {"position", "sprite"} \subseteq DOMAIN objs[b]
             THEN CollidePairs(objs, ents, Tail(pairs),
                               IF checkCollision(objs, a, b)
                               THEN Append(log, <<"collision", a, b>>)
                               ELSE log)
             ELSE Outcome(objs, log, "TypeError")

CollisionSystemUpdate(objs, ents, deltaTime) ==
    CollidePairs(objs, ents, PairsFrom(Len(ents), 1, 2), <<>>)

(* system.update(entities, deltaTime) *)
SystemUpdate(system, objs, ents, deltaTime) ==
    CASE system.name = "MovementSystem" -> MovementSystemUpdate(objs, ents, deltaTime)
      [] system.name = "HealthSystem" -> HealthSystemUpdate(objs, ents, deltaTime, <<>>)
      [] system.name = "CollisionSystem" -> CollisionSystemUpdate(objs, ents, deltaTime)

---------------------------------------------------------------------------
(* SystemManager *)

addSystem(list, system) == Append(list, system)

(* removeSystem taking out the first system of that name only *)
removeSystemFirstOnly(list, systemName) ==
    IF \E i \in 1..Len(list) : list[i].name = systemName
    THEN LET first == CHOOSE i \in 1..Len(list) :
                          /\ list[i].name = systemName
                          /\ \A j \in 1..(i - 1) : list[j].name # systemName
         IN  SubSeq(list, 1, first - 1) \o SubSeq(list, first + 1, Len(list))
    ELSE list

removeSystem(list, systemName) == SelectSeq(list, LAMBDA sy : sy.name # systemName)

(* One system.update call as SystemManager.update makes it *)
Call(system, ents, pre, outcome, deltaTime) ==
    [system |-> system.name, requiredComponents |-> system.requiredComponents,
     entities |-> ents, deltaTime |-> deltaTime,
     pre |-> pre, post |-> outcome.objects, log |-> outcome.log]

(* SystemManager.update handing every system all stored entities *)
RECURSIVE SystemManagerUpdateAllEntities(_, _, _, _, _)
SystemManagerUpdateAllEntities(list, store, objs, deltaTime, done) ==
    IF list = <<>> THEN [objects |-> objs, calls |-> done, error |-> "none"]
    ELSE LET system == Head(list)
             relevantEntities == getAllEntities(store)
             o == SystemUpdate(system, objs, relevantEntities, deltaTime)
             c == Append(done, Call(system, relevantEntities, objs, o, deltaTime))
         IN  IF o.error # "none"
             THEN [objects |-> o.objects, calls |-> c, error |-> o.error]
             ELSE SystemManagerUpdateAllEntities(Tail(list), store, o.objects,
                                                 deltaTime, c)

(* SystemManager.update running every system on the values the entities had
   when update was called *)
RECURSIVE SystemManagerUpdateBuffered(_, _, _, _, _)
SystemManagerUpdateBuffered(list, store, objs, deltaTime, done) ==
    IF list = <<>> THEN [objects |-> objs, calls |-> done, error |-> "none"]
    ELSE LET system == Head(list)
             relevantEntities ==
                 getEntitiesWithComponents(store, objs, system.requiredComponents)
             o == SystemUpdate(system, objs, relevantEntities, deltaTime)
             c == Append(done, Call(system, relevantEntities, objs, o, deltaTime))
             r == SystemManagerUpdateBuffered(Tail(list), store, objs, deltaTime, c)
         IN  IF o.error # "none"
             THEN [objects |-> o.objects, calls |-> c, error |-> o.error]
             ELSE [objects |-> IF Tail(list) = <<>> THEN o.objects ELSE r.objects,
                   calls |-> r.calls, error |-> r.error]

(* SystemManager.update: for each system in list order, the query, then the
   call, on the objects as the systems before it left them *)
RECURSIVE SystemManagerUpdate(_, _, _, _, _)
SystemManagerUpdate(list, store, objs, deltaTime, done) ==
    IF list = <<>> THEN [objects |-> objs, calls |-> done, error |-> "none"]
    ELSE LET system == Head(list)
             relevantEntities ==
                 getEntitiesWithComponents(store, objs, system.requiredComponents)
             o == SystemUpdate(system, objs, relevantEntities, deltaTime)
             c == Append(done, Call(system, relevantEntities, objs, o, deltaTime))
         IN  IF o.error # "none"
             THEN [objects |-> o.objects, calls |-> c, error |-> o.error]
             ELSE SystemManagerUpdate(Tail(list), store, o.objects, deltaTime, c)

---------------------------------------------------------------------------
(* Entity and system operations, one action per call *)

(* What the last call was, what it was given and what it handed back *)
EcsRan(op, id, kinds, unit, value) ==
    /\ ecsOp' = op
    /\ prevSystems' = systems
    /\ argId' = id
    /\ argKinds' = kinds
    /\ argUnit' = unit
    /\ returned' = value

(* A query result is comparable with the next one until the membership of
   the store is touched *)
Listed(list) ==
    /\ prevResult' = result
    /\ result' = list

Touched ==
    /\ prevResult' = <<>>
    /\ result' = <<>>

CreateEntity ==
    /\ nextId < MaxEntities
    /\ LET r == createEntity(nextId)
       IN  /\ nextId' = r.nextId
           /\ issued' = Append(issued, r.entity.id)
           /\ objects' = MapSet(objects, r.entity.id, r.entity.components)
           /\ EcsRan("createEntity", "none", <<>>, NoUnitArgs, r.entity.id)
    /\ calls' = <<>>
    /\ UNCHANGED <<entities, retired, systems, result, prevResult, steps>>
    /\ UNCHANGED <<serverVars, clientVars, uiVars>>

CreateUnit(a) ==
    /\ nextId < MaxEntities
    /\ LET r == createUnit(nextId, a.x, a.y, a.unitType, a.playerId)
       IN  /\ nextId' = r.nextId
           /\ issued' = Append(issued, r.entity.id)
           /\ objects' = MapSet(objects, r.entity.id, r.entity.components)
           /\ EcsRan("createUnit", "none", <<>>, a, r.entity.id)
    /\ calls' = <<>>
    /\ UNCHANGED <<entities, retired, systems, result, prevResult, steps>>
    /\ UNCHANGED <<serverVars, clientVars, uiVars>>

(* entity.components.set(component.type, component) *)
Attach(id, component) ==
    /\ id \in DOMAIN objects
    /\ steps < MaxSteps
    /\ steps' = steps + 1
    /\ objects' = [objects EXCEPT ![id] = MapSet(@, component.type, component)]
    /\ EcsRan("attach", "none", <<>>, NoUnitArgs, "none")
    /\ calls' = <<>>
    /\ UNCHANGED <<nextId, issued, entities, retired, systems, result, prevResult>>
    /\ UNCHANGED <<serverVars, clientVars, uiVars>>

AddEntity(id) ==
    /\ id \in DOMAIN objects
    /\ entities' = addEntity(entities, id)
    /\ Touched
    /\ EcsRan("addEntity", "none", <<>>, NoUnitArgs, "none")
    /\ calls' = <<>>
    /\ UNCHANGED <<nextId, issued, objects, retired, systems, steps>>
    /\ UNCHANGED <<serverVars, clientVars, uiVars>>

RemoveEntity(id) ==
    /\ entities' = removeEntity(entities, id)
    /\ retired' = retired \cup ({id} \cap Range(entities))
    /\ Touched
    /\ EcsRan("removeEntity", id, <<>>, NoUnitArgs, "none")
    /\ calls' = <<>>
    /\ UNCHANGED <<nextId, issued, objects, systems, steps>>
    /\ UNCHANGED <<serverVars, clientVars, uiVars>>

Clear ==
    /\ entities' = clear(entities)
    /\ retired' = retired \cup Range(entities)
    /\ Touched
    /\ EcsRan("clear", "none", <<>>, NoUnitArgs, "none")
    /\ calls' = <<>>
    /\ UNCHANGED <<nextId, issued, objects, systems, steps>>
    /\ UNCHANGED <<serverVars, clientVars, uiVars>>

GetEntity(id) ==
    /\ EcsRan("getEntity", id, <<>>, NoUnitArgs, getEntity(entities, id))
    /\ UNCHANGED <<nextId, issued, objects, entities, retired, systems, result,
                   prevResult, calls, steps>>
    /\ UNCHANGED <<serverVars, clientVars, uiVars>>

GetEntitiesWithComponents(componentTypes) ==
    /\ Listed(getEntitiesWithComponents(entities, objects, componentTypes))
    /\ EcsRan("getEntitiesWithComponents", "none", componentTypes, NoUnitArgs, "none")
    /\ UNCHANGED <<nextId, issued, objects, entities, retired, systems, calls, steps>>
    /\ UNCHANGED <<serverVars, clientVars, uiVars>>

GetAllEntities ==
    /\ Listed(getAllEntities(entities))
    /\ EcsRan("getAllEntities", "none", <<>>, NoUnitArgs, "none")
    /\ UNCHANGED <<nextId, issued, objects, entities, retired, systems, calls, steps>>
    /\ UNCHANGED <<serverVars, clientVars, uiVars>>

AddSystem(system) ==
    /\ Len(systems) < MaxSystems
    /\ systems' = addSystem(systems, system)
    /\ EcsRan("addSystem", "none", <<>>, NoUnitArgs, "none")
    /\ calls' = <<>>
    /\ UNCHANGED <<nextId, issued, objects, entities, retired, result, prevResult,
                   steps>>
    /\ UNCHANGED <<serverVars, clientVars, uiVars>>

RemoveSystem(systemName) ==
    /\ systems' = removeSystem(systems, systemName)
    /\ EcsRan("removeSystem", systemName, <<>>, NoUnitArgs, "none")
    /\ calls' = <<>>
    /\ UNCHANGED <<nextId, issued, objects, entities, retired, result, prevResult,
                   steps>>
    /\ UNCHANGED <<serverVars, clientVars, uiVars>>

(* systemManager.update(entityManager, deltaTime) *)
Update(deltaTime) ==
    /\ steps < MaxSteps
    /\ steps' = steps + 1
    /\ LET r == SystemManagerUpdate(systems, entities, objects, deltaTime, <<>>)
       IN  /\ objects' = r.objects
           /\ calls' = r.calls
    /\ EcsRan("update", "none", <<>>, NoUnitArgs, "none")
    /\ UNCHANGED <<nextId, issued, entities, retired, systems, result, prevResult>>
    /\ UNCHANGED <<serverVars, clientVars, uiVars>>

EcsInit ==
    /\ nextId = 0
    /\ issued = <<>>
    /\ objects = EmptyMap
    /\ entities = <<>>
    /\ retired = {}
    /\ systems = <<>>
    /\ prevSystems = <<>>
    /\ ecsOp = "init"
    /\ argId = "none"
    /\ argKinds = <<>>
    /\ argUnit = NoUnitArgs
    /\ returned = "none"
    /\ result = <<>>
    /\ prevResult = <<>>
    /\ calls = <<>>
    /\ steps = 0

(* Ids callers pass: every id the factory issued, and one it never issued *)
KnownIds == Range(issued) \cup {"entity_0"}

(* The entity factory and the entity store, driven by their callers *)
StoreNext ==
    \/ CreateEntity
    \/ \E a \in UnitArgs : CreateUnit(a)
    \/ \E id \in DOMAIN objects, c \in AttachValues : Attach(id, c)
    \/ \E id \in DOMAIN objects : AddEntity(id)
    \/ \E id \in KnownIds : RemoveEntity(id)
    \/ Clear
    \/ \E id \in KnownIds : GetEntity(id)
    \/ \E k \in KindLists : GetEntitiesWithComponents(k)
    \/ GetAllEntities

(* The system pipeline over a store its callers fill *)
PipelineNext ==
    \/ CreateEntity
    \/ \E a \in UnitArgs : CreateUnit(a)
    \/ \E id \in DOMAIN objects, c \in AttachValues : Attach(id, c)
    \/ \E id \in DOMAIN objects : AddEntity(id)
    \/ \E sy \in Systems : AddSystem(sy)
    \/ \E sy \in Systems : RemoveSystem(sy.name)
    \/ \E dt \in DeltaTimes : Update(dt)

(* Calls of the systems by a caller that holds the entities itself, as the
   tests make them *)

(* createEntity followed by components.set for each component *)
Spawn(bundle) ==
    /\ nextId < MaxSpawned
    /\ LET r == createEntity(nextId)
       IN  /\ nextId' = r.nextId
           /\ issued' = Append(issued, r.entity.id)
           /\ objects' = MapSet(objects, r.entity.id, bundle)
           /\ EcsRan("spawn", "none", <<>>, NoUnitArgs, r.entity.id)
    /\ calls' = <<>>
    /\ UNCHANGED <<entities, retired, systems, result, prevResult, steps>>
    /\ UNCHANGED <<serverVars, clientVars, uiVars>>

(* system.update(list, deltaTime): the call, what it left and what it threw *)
DirectUpdate(system, list, deltaTime) ==
    /\ steps < MaxDirectCalls
    /\ steps' = steps + 1
    /\ LET o == SystemUpdate(system, objects, list, deltaTime)
       IN  /\ objects' = o.objects
           /\ calls' = <<Call(system, list, objects, o, deltaTime)>>
           /\ EcsRan(system.name, "none", <<>>, NoUnitArgs, o.error)
    /\ UNCHANGED <<nextId, issued, entities, retired, systems, result, prevResult>>
    /\ UNCHANGED <<serverVars, clientVars, uiVars>>

(* checkCollision(entityA, entityB) as CollisionSystem.update calls it for a
   pair of its list *)
CheckCollision(entityA, entityB) ==
    /\ entityA # entityB
    /\ {"position", "sprite"} \subseteq DOMAIN objects[entityA]
    /\ {"position", "sprite"} \subseteq DOMAIN objects[entityB]
    /\ EcsRan("checkCollision", "none", <<>>, NoUnitArgs,
              IF checkCollision(objects, entityA, entityB) THEN "true" ELSE "false")
    /\ result' = <<entityA, entityB>>
    /\ calls' = <<>>
    /\ UNCHANGED <<nextId, issued, objects, entities, retired, systems, prevResult,
                   steps>>
    /\ UNCHANGED <<serverVars, clientVars, uiVars>>

SystemsNext ==
    \/ \E b \in {c \in SpawnBundles : "sprite" \notin DOMAIN c} : Spawn(b)
    \/ \E sy \in {MovementSystem, HealthSystem}, l \in EntityLists(DOMAIN objects),
          dt \in DeltaTimes : DirectUpdate(sy, l, dt)

(* MovementSystem.update alone, over the entities that carry a position and
   no box: the moving ones and the one without velocity *)
MovementNext ==
    \/ \E b \in {c \in SpawnBundles :
                     "position" \in DOMAIN c /\ "sprite" \notin DOMAIN c} : Spawn(b)
    \/ \E l \in EntityLists(DOMAIN objects), dt \in DeltaTimes :
           DirectUpdate(MovementSystem, l, dt)

(* The entities a store holds when the systems run over it: one moving, one
   whose health stays at or below zero, two boxes that overlap *)
StoredBundles ==
    { Components({PositionComponent(0, 0, DEFAULT_Z), VelocityComponent(10, 5, DEFAULT_Z)}),
      Components({HealthComponent(-5, 100)}),
      Components({PositionComponent(0, 0, DEFAULT_Z),
                  SpriteComponent("box", 32, 32, DEFAULT_ROTATION)}),
      Components({PositionComponent(20, 20, DEFAULT_Z),
                  SpriteComponent("box", 32, 32, DEFAULT_ROTATION)}) }

(* SystemManager.update over a store filled by addEntity, every frame of the
   shortest length *)
TraversalNext ==
    \/ \E b \in StoredBundles : Spawn(b)
    \/ \E id \in DOMAIN objects : AddEntity(id)
    \/ \E sy \in Systems : AddSystem(sy)
    \/ \E dt \in ShortestFrames : Update(dt)

(* Registering and removing systems around updates of a store *)
RegistryNext ==
    \/ \E a \in UnitArgs : CreateUnit(a)
    \/ \E sy \in Systems : AddSystem(sy)
    \/ \E sy \in Systems : RemoveSystem(sy.name)
    \/ \E dt \in ShortestFrames : Update(dt)

(* The collision check and CollisionSystem.update alone, over the entities
   that carry a box *)
CollisionNext ==
    \/ \E b \in {c \in SpawnBundles : "sprite" \in DOMAIN c} : Spawn(b)
    \/ \E a, b \in DOMAIN objects : CheckCollision(a, b)
    \/ \E l \in EntityLists(DOMAIN objects), dt \in ShortestFrames :
           DirectUpdate(CollisionSystem, l, dt)

---------------------------------------------------------------------------
(* NetworkManager (src/src/client/NetworkManager.ts) *)

(* setTimeout(..., 5000) of connect *)
CONNECT_TIMEOUT_MS == 5000

(* The clock is read at multiples of half the connection timeout *)
ClockStep == CONNECT_TIMEOUT_MS \div 2

(* socket.id of the i-th socket the client creates *)
ClientSocketId(i) == "client" \o ToString(i) \o "socket"

(* The command objects and the other messages the client sends *)
ClientCommands ==
    { [type |-> "move", data |-> "target"], [type |-> "select", data |-> "point"] }

ClientMessages == { [type |-> "chat", data |-> "hello"] }

(* Kinds GameClient registers handlers for *)
RegisteredKinds == {"gameState", "playerJoin"}

(* The kinds of message the server sends: those, and one that no handler is
   ever registered for *)
MessageKinds == RegisteredKinds \cup {"ping"}

MessageData == {"payload1", "payload2"}

(* The handler functions passed to onMessage *)
Handlers == {"handlerA", "handlerB"}

NoMessage == [type |-> "none", data |-> "none"]

(* resolve() and reject(e) of the Promise executor: the first call settles
   the promise, later calls do nothing *)
Resolve(promise) == IF promise = "pending" THEN "resolved" ELSE promise

Reject(promise, e) == IF promise = "pending" THEN e ELSE promise

(* handleMessage calling the handlers newest first *)
handleMessageNewestFirst(queue, handlers, type, data, time) ==
    [messageQueue |-> Append(queue, [type |-> type, timestamp |-> time, data |-> data]),
     calls |-> IF type \in DOMAIN handlers
               THEN [i \in 1..Len(handlers[type]) |->
                        <<handlers[type][Len(handlers[type]) + 1 - i], data>>]
               ELSE <<>>]

(* handleMessage: push onto messageQueue, then call the handlers registered
   for the type, in array order, with the data *)
handleMessage(queue, handlers, type, data, time) ==
    [messageQueue |-> Append(queue, [type |-> type, timestamp |-> time, data |-> data]),
     calls |-> IF type \in DOMAIN handlers
               THEN [i \in 1..Len(handlers[type]) |-> <<handlers[type][i], data>>]
               ELSE <<>>]

(* processMessages returning the queue without replacing it *)
processMessagesKeeping(queue) == [returned |-> queue, messageQueue |-> queue]

(* processMessages: a copy of the queue is returned, the queue is replaced by
   an empty one *)
processMessages(queue) == [returned |-> queue, messageQueue |-> <<>>]

(* onMessage: create the array on first use, push the handler *)
onMessage(handlers, type, handler) ==
    IF type \in DOMAIN handlers
    THEN [handlers EXCEPT ![type] = Append(@, handler)]
    ELSE MapSet(handlers, type, <<handler>>)

(* The guard of sendCommand and sendMessage testing the socket only *)
EmitIfSocket(socket, connected, event, data) ==
    IF socket = 0
    THEN <<>>
    ELSE <<[socket |-> socket, event |-> event, data |-> data]>>

(* sendCommand / sendMessage: warn and return unless there is a socket and
   connected is set, else one socket.emit *)
EmitIfConnected(socket, connected, event, data) ==
    IF socket = 0 \/ ~connected
    THEN <<>>
    ELSE <<[socket |-> socket, event |-> event, data |-> data]>>

(* The record of the method or callback that ran *)
ClientRan(op, arg, emitted, called, e) ==
    /\ clientOp' = op
    /\ cArg' = arg
    /\ cOut' = emitted
    /\ handlerCalls' = called
    /\ cError' = e

(* connect(serverUrl), called while the client holds no socket: io(serverUrl),
   the callbacks, and the 5 s timer *)
Connect ==
    /\ cSocket = 0
    /\ Len(cSockets) < MaxAttempts
    /\ cSockets' = Append(cSockets, [state |-> "connecting", promise |-> "pending",
                                      timer |-> "armed", started |-> now,
                                      joined |-> FALSE])
    /\ cSocket' = Len(cSockets) + 1
    /\ ClientRan("connect", NoMessage, <<>>, <<>>, "none")
    /\ UNCHANGED <<cConnected, cPlayerId, messageHandlers, messageQueue, now,
                   registrations, inbound>>
    /\ UNCHANGED <<serverVars, ecsVars, messageLog, uiVars>>

(* The connect callback without the join *)
SocketConnectSilent(i) ==
    /\ cSockets[i].state \in {"connecting", "down"}
    /\ cConnected' = TRUE
    /\ cPlayerId' = IF cSocket = 0 THEN cPlayerId ELSE ClientSocketId(cSocket)
    /\ cSockets' = [cSockets EXCEPT ![i].state = "connected",
                                    ![i].promise = Resolve(@)]
    /\ ClientRan("socketConnect", NoMessage, <<>>, <<>>, "none")
    /\ UNCHANGED <<cSocket, messageHandlers, messageQueue, now, registrations, inbound>>
    /\ UNCHANGED <<serverVars, ecsVars, messageLog, uiVars>>

(* socket.on('connect') of socket i *)
SocketConnect(i) ==
    /\ cSockets[i].state \in {"connecting", "down"}
    /\ cConnected' = TRUE
    /\ IF cSocket = 0
       THEN \* this.socket!.id throws
            /\ cSockets' = [cSockets EXCEPT ![i].state = "connected"]
            /\ ClientRan("socketConnect", NoMessage, <<>>, <<>>, "TypeError")
            /\ UNCHANGED cPlayerId
       ELSE /\ cPlayerId' = ClientSocketId(cSocket)
            /\ cSockets' = [cSockets EXCEPT ![i].state = "connected",
                                            ![i].promise = Resolve(@),
                                            ![cSocket].joined = TRUE]
            /\ ClientRan("socketConnect", NoMessage,
                         <<[socket |-> cSocket, event |-> "join",
                            data |-> [name |-> "Player_"
                                          \o SubSeq(ClientSocketId(cSocket), 1, 6),
                                      faction |-> "GLA"]]>>,
                         <<>>, "none")
    /\ UNCHANGED <<cSocket, messageHandlers, messageQueue, now, registrations, inbound>>
    /\ UNCHANGED <<serverVars, ecsVars, messageLog, uiVars>>

(* socket.on('disconnect') of socket i: the transport was lost *)
SocketDisconnect(i) ==
    /\ cSockets[i].state = "connected"
    /\ cSockets' = [cSockets EXCEPT ![i].state = "down"]
    /\ cConnected' = FALSE
    /\ ClientRan("socketDisconnect", NoMessage, <<>>, <<>>, "none")
    /\ UNCHANGED <<cSocket, cPlayerId, messageHandlers, messageQueue, now,
                   registrations, inbound>>
    /\ UNCHANGED <<serverVars, ecsVars, messageLog, uiVars>>

(* socket.on('connect_error') of socket i *)
SocketConnectError(i) ==
    /\ cSockets[i].state \in {"connecting", "down"}
    /\ cSockets' = [cSockets EXCEPT ![i].promise = Reject(@, "ConnectionError")]
    /\ ClientRan("socketConnectError", NoMessage, <<>>, <<>>, "none")
    /\ UNCHANGED <<cSocket, cConnected, cPlayerId, messageHandlers, messageQueue, now,
                   registrations, inbound>>
    /\ UNCHANGED <<serverVars, ecsVars, messageLog, uiVars>>

(* The setTimeout callback of the i-th connect, 5000 ms after the call *)
ConnectTimeout(i) ==
    /\ cSockets[i].timer = "armed"
    /\ now >= cSockets[i].started + CONNECT_TIMEOUT_MS
    /\ cSockets' = [cSockets EXCEPT
                       ![i].timer = "fired",
                       ![i].promise = IF ~cConnected
                                      THEN Reject(@, "TimeoutError")
                                      ELSE @]
    /\ ClientRan("connectTimeout", NoMessage, <<>>, <<>>, "none")
    /\ UNCHANGED <<cSocket, cConnected, cPlayerId, messageHandlers, messageQueue, now,
                   registrations, inbound>>
    /\ UNCHANGED <<serverVars, ecsVars, messageLog, uiVars>>

(* Time passes, unless a timer is due *)
Advance ==
    /\ now < MaxClockSteps * ClockStep
    /\ \A i \in 1..Len(cSockets) :
           cSockets[i].timer = "armed" =>
               now < cSockets[i].started + CONNECT_TIMEOUT_MS
    /\ now' = now + ClockStep
    /\ ClientRan("advance", NoMessage, <<>>, <<>>, "none")
    /\ UNCHANGED <<cSockets, cSocket, cConnected, cPlayerId, messageHandlers,
                   messageQueue, registrations, inbound>>
    /\ UNCHANGED <<serverVars, ecsVars, messageLog, uiVars>>

(* disconnect() *)
ClientDisconnect ==
    /\ IF cSocket # 0
       THEN /\ cSockets' = [cSockets EXCEPT ![cSocket].state = "closed"]
            /\ cSocket' = 0
            /\ cConnected' = FALSE
            /\ cPlayerId' = ""
       ELSE UNCHANGED <<cSockets, cSocket, cConnected, cPlayerId>>
    /\ ClientRan("disconnect", NoMessage, <<>>, <<>>, "none")
    /\ UNCHANGED <<messageHandlers, messageQueue, now, registrations, inbound>>
    /\ UNCHANGED <<serverVars, ecsVars, messageLog, uiVars>>

(* sendCommand(command) *)
SendCommand(command) ==
    /\ ClientRan("sendCommand", [type |-> "command", data |-> command],
                 EmitIfConnected(cSocket, cConnected, "command", command),
                 <<>>, "none")
    /\ UNCHANGED <<cSockets, cSocket, cConnected, cPlayerId, messageHandlers,
                   messageQueue, now, registrations, inbound>>
    /\ UNCHANGED <<serverVars, ecsVars, messageLog, uiVars>>

(* sendMessage(type, data) *)
SendMessage(message) ==
    /\ ClientRan("sendMessage", message,
                 EmitIfConnected(cSocket, cConnected, message.type, message.data),
                 <<>>, "none")
    /\ UNCHANGED <<cSockets, cSocket, cConnected, cPlayerId, messageHandlers,
                   messageQueue, now, registrations, inbound>>
    /\ UNCHANGED <<serverVars, ecsVars, messageLog, uiVars>>

(* onMessage(type, handler) *)
OnMessage(type, handler) ==
    /\ registrations < MaxRegistrations
    /\ registrations' = registrations + 1
    /\ messageHandlers' = onMessage(messageHandlers, type, handler)
    /\ ClientRan("onMessage", NoMessage, <<>>, <<>>, "none")
    /\ UNCHANGED <<cSockets, cSocket, cConnected, cPlayerId, messageQueue, now, inbound>>
    /\ UNCHANGED <<serverVars, ecsVars, messageLog, uiVars>>

(* socket.onAny of socket i: a message of the server arrives *)
Inbound(i, type, data) ==
    /\ cSockets[i].state = "connected"
    /\ inbound < MaxInbound
    /\ inbound' = inbound + 1
    /\ LET r == handleMessage(messageQueue, messageHandlers, type, data, now)
       IN  /\ messageQueue' = r.messageQueue
           /\ ClientRan("message", [type |-> type, data |-> data], <<>>, r.calls, "none")
    /\ arrivals' = Append(arrivals, [type |-> type, timestamp |-> now, data |-> data])
    /\ UNCHANGED <<cSockets, cSocket, cConnected, cPlayerId, messageHandlers, now,
                   registrations, handedOut>>
    /\ UNCHANGED <<serverVars, ecsVars, uiVars>>

(* processMessages(): hand out a copy of the queue and empty it *)
ProcessMessages ==
    /\ LET messages == processMessages(messageQueue)
       IN  /\ messageQueue' = messages.messageQueue
           /\ handedOut' = handedOut \o messages.returned
    /\ ClientRan("processMessages", NoMessage, <<>>, <<>>, "none")
    /\ UNCHANGED <<cSockets, cSocket, cConnected, cPlayerId, messageHandlers, now,
                   registrations, inbound, arrivals>>
    /\ UNCHANGED <<serverVars, ecsVars, uiVars>>

ClientInit ==
    /\ cSockets = <<>>
    /\ cSocket = 0
    /\ cConnected = FALSE
    /\ cPlayerId = ""
    /\ messageHandlers = EmptyMap
    /\ messageQueue = <<>>
    /\ now = 0
    /\ clientOp = "init"
    /\ cArg = NoMessage
    /\ cOut = <<>>
    /\ handlerCalls = <<>>
    /\ cError = "none"
    /\ registrations = 0
    /\ inbound = 0
    /\ arrivals = <<>>
    /\ handedOut = <<>>

(* Connecting, losing and closing the connection, and sending, over time *)
ConnectNext ==
    \/ Connect
    \/ \E i \in 1..Len(cSockets) : SocketConnect(i)
    \/ \E i \in 1..Len(cSockets) : SocketDisconnect(i)
    \/ \E i \in 1..Len(cSockets) : SocketConnectError(i)
    \/ \E i \in 1..Len(cSockets) : ConnectTimeout(i)
    \/ Advance
    \/ ClientDisconnect
    \/ \E c \in ClientCommands : SendCommand(c)
    \/ \E m \in ClientMessages : SendMessage(m)

(* Receiving messages over a connection *)
MessageNext ==
    \/ Connect
    \/ \E i \in 1..Len(cSockets) : SocketConnect(i)
    \/ \E t \in RegisteredKinds, h \in Handlers : OnMessage(t, h)
    \/ \E i \in 1..Len(cSockets), t \in MessageKinds, d \in MessageData :
           Inbound(i, t, d)
    \/ ClientDisconnect

(* Messages arriving between the processMessages calls of the game loop *)
QueueNext ==
    \/ Connect
    \/ \E i \in 1..Len(cSockets) : SocketConnect(i)
    \/ \E i \in 1..Len(cSockets), t \in MessageKinds, d \in MessageData :
           Inbound(i, t, d)
    \/ ProcessMessages
    \/ ClientDisconnect

---------------------------------------------------------------------------
(* Events *)

(* start(): server.listen, then startGameLoop sets an interval timer that is
   never cleared; the program calls start once, after construction *)
Start ==
    /\ alive
    /\ timers = 0
    /\ timers' = timers + 1
    /\ Ran("start", "none", NoCommand)
    /\ Threw("none")
    /\ out' = {}
    /\ invoked' = "none"
    /\ UNCHANGED <<conn, players, gameState, iteration, loopBroadcasts, commands>>
    /\ UNCHANGED <<logVars, ecsVars, clientVars, uiVars>>

(* start() on a server that is listening, with listen accepting the call: a
   second interval timer is set *)
StartAgainListening ==
    /\ alive
    /\ timers > 0
    /\ timers' = timers + 1
    /\ Ran("start", "none", NoCommand)
    /\ Threw("none")
    /\ out' = {}
    /\ invoked' = "none"
    /\ UNCHANGED <<conn, players, gameState, iteration, loopBroadcasts, commands>>
    /\ UNCHANGED <<logVars, ecsVars, clientVars, uiVars>>

(* start() on a server that is listening: server.listen throws
   ERR_SERVER_ALREADY_LISTEN, so startGameLoop is not reached; the process
   goes on if the caller catches the error *)
StartAgain ==
    /\ alive
    /\ timers > 0
    /\ UNCHANGED timers
    /\ Ran("start", "none", NoCommand)
    /\ error' = "ERR_SERVER_ALREADY_LISTEN"
    /\ \E caught \in BOOLEAN : alive' = caught
    /\ out' = {}
    /\ invoked' = "none"
    /\ UNCHANGED <<conn, players, gameState, iteration, loopBroadcasts, commands>>
    /\ UNCHANGED <<logVars, ecsVars, clientVars, uiVars>>

(* socket.on('join') *)
Join(socket, playerData, random) ==
    /\ alive
    /\ conn[socket] = "open"
    /\ handlePlayerJoin(socket, playerData, random)
    /\ UNCHANGED <<timers, logVars, ecsVars, clientVars, uiVars>>

(* socket.on('command') *)
Command(socket, command) ==
    /\ alive
    /\ conn[socket] = "open"
    /\ commands < MaxCommands
    /\ handleGameCommand(socket, command)
    /\ UNCHANGED <<timers, logVars, ecsVars, clientVars, uiVars>>

(* socket.on('command') with the arrival and the handler call written down:
   the callback hands the command it was given to handleGameCommand before it
   returns *)
CommandLogged(socket, command) ==
    /\ alive
    /\ conn[socket] = "open"
    /\ commands < MaxLoggedCommands
    /\ handleGameCommand(socket, command)
    /\ arrived' = [arrived EXCEPT ![socket] = Append(@, command.type)]
    /\ dispatched' =
           IF invoked' = "none"
           THEN dispatched
           ELSE [dispatched EXCEPT
                    ![socket] = Append(@, <<Len(arrived'[socket]), invoked'>>)]
    /\ UNCHANGED <<timers, ecsVars, clientVars, uiVars>>

(* socket.on('disconnect') *)
Disconnect(socket) ==
    /\ alive
    /\ conn[socket] = "open"
    /\ conn' = [conn EXCEPT ![socket] = "closed"]
    /\ handlePlayerLeave(socket)
    /\ UNCHANGED <<timers, logVars, ecsVars, clientVars, uiVars>>

(* the setInterval callback of startGameLoop *)
Tick ==
    /\ alive
    /\ timers > 0
    /\ iteration < MaxIterations
    /\ updateGame
    /\ UNCHANGED <<timers, logVars, ecsVars, clientVars, uiVars>>

LoopTick ==
    /\ alive
    /\ timers > 0
    /\ iteration < MaxLoopIterations
    /\ updateGame
    /\ UNCHANGED <<timers, logVars, ecsVars, clientVars, uiVars>>

LoggedTick ==
    /\ alive
    /\ timers > 0
    /\ iteration < MaxLoggedIterations
    /\ updateGame
    /\ UNCHANGED <<timers, logVars, ecsVars, clientVars, uiVars>>

---------------------------------------------------------------------------
(* Renderer camera (src/unnamed/part_001) *)

(* Zoom factors are counted in tenths: 1.0 is 10 *)
INITIAL_ZOOM == 10

MIN_ZOOM == 1

MAX_ZOOM == 30

(* Arguments of the camera mutators: pans, positions, and zoom factors below,
   at, between and above the limits; setCamera may be called without zoom *)
CameraDeltas == {-10, 10}

CameraPositions == {0, 100}

ZoomValues == {0, MIN_ZOOM, INITIAL_ZOOM, MAX_ZOOM, MAX_ZOOM + 1, 50}

(* Math.max(0.1, Math.min(3.0, zoom)) *)
clampZoom(zoom) ==
    LET upper == IF zoom < MAX_ZOOM THEN zoom ELSE MAX_ZOOM
    IN  IF upper > MIN_ZOOM THEN upper ELSE MIN_ZOOM

CameraRan(op) ==
    /\ cameraOp' = op
    /\ cameraCalls < MaxCameraCalls
    /\ cameraCalls' = cameraCalls + 1
    /\ UNCHANGED <<serverVars, ecsVars, clientVars, gameClientVars>>

MoveCamera(deltaX, deltaY) ==
    /\ camera' = [camera EXCEPT !.x = @ + deltaX, !.y = @ + deltaY]
    /\ CameraRan("moveCamera")

SetZoom(zoom) ==
    /\ camera' = [camera EXCEPT !.zoom = clampZoom(zoom)]
    /\ CameraRan("setZoom")

(* setCamera(x, y, zoom?): zoom is assigned as given when it is given; the
   optional argument is <<>> when left out and <<zoom>> otherwise *)
SetCamera(x, y, zoom) ==
    /\ camera' = [x |-> x, y |-> y,
                  zoom |-> IF zoom # <<>> THEN zoom[1] ELSE camera.zoom]
    /\ CameraRan("setCamera")

RendererInit ==
    /\ camera = [x |-> 0, y |-> 0, zoom |-> INITIAL_ZOOM]
    /\ cameraOp = "init"
    /\ cameraCalls = 0

CameraNext ==
    \/ \E dx, dy \in CameraDeltas : MoveCamera(dx, dy)
    \/ \E z \in ZoomValues : SetZoom(z)
    \/ \E x, y \in CameraPositions, z \in {<<>>} \cup {<<v>> : v \in ZoomValues} :
           SetCamera(x, y, z)

---------------------------------------------------------------------------
(* GameClient and GameLoop (src/src/client/GameClient.ts) *)

(* What the collaborators called by update do to the client while they run:
   nothing (as the InputManager of this repository), a stop(), or a stop()
   followed by a start() *)
InsideCalls == {"none", "stop", "restart"}

(* The client and its loop as one record, for the calls that nest *)
ClientNow ==
    [isRunning |-> isRunning, updateCallback |-> updateCallback,
     animationId |-> animationId, pending |-> pending, frames |-> frames,
     work |-> <<>>]

(* GameLoop.stop *)
GameLoopStop(g) ==
    [g EXCEPT !.pending = IF g.animationId # 0 THEN @ \ {g.animationId} ELSE @,
              !.animationId = 0,
              !.updateCallback = FALSE]

(* GameClient.stop *)
GameClientStop(g) == GameLoopStop([g EXCEPT !.isRunning = FALSE])

(* One phase of update: what ran, and isRunning when it ran *)
Phase(g, name) ==
    [g EXCEPT !.work = Append(@, [phase |-> name, isRunning |-> g.isRunning])]

RECURSIVE GameClientStart(_, _)
RECURSIVE GameLoopLoop(_, _)
RECURSIVE GameClientUpdate(_, _)

(* GameClient.update: input, network messages, render; inside is what
   inputManager.update() calls back *)
GameClientUpdate(g, inside) ==
    IF ~g.isRunning THEN g
    ELSE LET input == Phase(g, "input")
             called == CASE inside = "none" -> input
                         [] inside = "stop" -> GameClientStop(input)
                         [] inside = "restart" ->
                                GameClientStart(GameClientStop(input), "none")
         IN  Phase(Phase(called, "messages"), "render")

(* GameLoop.loop: the callback if there is one, then the next frame if there
   is one *)
GameLoopLoop(g, inside) ==
    LET called == IF g.updateCallback THEN GameClientUpdate(g, inside) ELSE g
    IN  IF called.updateCallback
        THEN [called EXCEPT !.frames = @ + 1,
                            !.animationId = called.frames + 1,
                            !.pending = @ \cup {called.frames + 1}]
        ELSE called

(* GameClient.start, with GameLoop.start *)
GameClientStart(g, inside) ==
    IF g.isRunning THEN g
    ELSE GameLoopLoop([g EXCEPT !.isRunning = TRUE, !.updateCallback = TRUE], inside)

(* The state a call leaves *)
GameClientRan(op, g) ==
    /\ loopOp' = op
    /\ isRunning' = g.isRunning
    /\ updateCallback' = g.updateCallback
    /\ animationId' = g.animationId
    /\ pending' = g.pending
    /\ frames' = g.frames
    /\ work' = g.work
    /\ UNCHANGED <<serverVars, ecsVars, clientVars, rendererVars>>

StartClient(inside) ==
    /\ frames + 2 <= MaxFrames
    /\ GameClientRan("start", GameClientStart(ClientNow, inside))

StopClient ==
    GameClientRan("stop", GameClientStop(ClientNow))

(* The browser runs a requested frame: GameLoop.loop *)
AnimationFrame(id, inside) ==
    /\ id \in pending
    /\ frames + 2 <= MaxFrames
    /\ GameClientRan("frame", GameLoopLoop([ClientNow EXCEPT !.pending = @ \ {id}],
                                           inside))

GameClientInit ==
    /\ isRunning = FALSE
    /\ updateCallback = FALSE
    /\ animationId = 0
    /\ pending = {}
    /\ frames = 0
    /\ loopOp = "init"
    /\ work = <<>>

GameClientNext ==
    \/ \E inside \in InsideCalls : StartClient(inside)
    \/ StopClient
    \/ \E id \in pending, inside \in InsideCalls : AnimationFrame(id, inside)

Init ==
    /\ conn = [s \in Sockets |-> "idle"]
    /\ players = EmptyMap
    /\ gameState = [tick |-> 0, entities |-> EmptyMap, players |-> EmptyMap,
                    status |-> "waiting"]
    /\ alive = TRUE
    /\ out = {}
    /\ lastOp = "init"
    /\ lastSocket = "none"
    /\ lastCommand = NoCommand
    /\ invoked = "none"
    /\ error = "none"
    /\ iteration = 0
    /\ loopBroadcasts = 0
    /\ commands = 0
    /\ timers = 0
    /\ arrived = [s \in Sockets |-> <<>>]
    /\ dispatched = [s \in Sockets |-> <<>>]
    /\ EcsInit
    /\ ClientInit
    /\ RendererInit
    /\ GameClientInit

Next ==
    \/ Start
    \/ \E s \in Sockets : Connection(s)
    \/ \E s \in Sockets, d \in JoinPayloads, r \in RandomDraws : Join(s, d, r)
    \/ \E s \in Sockets, c \in Commands : Command(s, c)
    \/ \E s \in Sockets : Disconnect(s)
    \/ Tick

Spec == Init /\ [][Next]_vars

(* The server loop alone: no connection ever sends anything *)
LoopNext == Start \/ LoopTick

LoopSpec == Init /\ [][LoopNext]_vars

(* The server loop with start() called again while it runs *)
TimerNext == Start \/ StartAgain \/ LoopTick

TimerSpec == Init /\ [][TimerNext]_vars

(* The one join payload used where the players' names do not matter *)
LoggedJoin == [present |-> TRUE, name |-> "Ann", faction |-> "USA"]

(* Commands of two known kinds and of the unknown kind, and no object *)
LoggedCommands ==
    {c \in Commands : c.type \in {"move", "attack", "clearSelection", "undefined"}}

(* Connections sending commands between loop iterations, every arrival and
   every handler call written down *)
FifoNext ==
    \/ Start
    \/ \E s \in Sockets : Connection(s)
    \/ \E s \in Sockets : Join(s, LoggedJoin, 0)
    \/ \E s \in Sockets, c \in LoggedCommands : CommandLogged(s, c)
    \/ LoggedTick

FifoSpec == Init /\ [][FifoNext]_vars

StoreSpec == Init /\ [][StoreNext]_vars

PipelineSpec == Init /\ [][PipelineNext]_vars

SystemsSpec == Init /\ [][SystemsNext]_vars

TraversalSpec == Init /\ [][TraversalNext]_vars

RegistrySpec == Init /\ [][RegistryNext]_vars

MovementSpec == Init /\ [][MovementNext]_vars

CollisionSpec == Init /\ [][CollisionNext]_vars

ConnectSpec == Init /\ [][ConnectNext]_vars

MessageSpec == Init /\ [][MessageNext]_vars

QueueSpec == Init /\ [][QueueNext]_vars

CameraSpec == Init /\ [][CameraNext]_vars

GameClientSpec == Init /\ [][GameClientNext]_vars

---------------------------------------------------------------------------
(* Properties *)

KnownTypes == {"move", "attack", "build", "select"}

(* The gameState snapshots / notifications the last callback emitted *)
Snapshots == {m \in out : m.event = "gameState"}

Joined == DOMAIN players

(* C1: in a run of loop iterations only, the k-th broadcast happens at
   iteration 30 * k: after n iterations the loop has broadcast n \div 30
   times. *)
C1_BroadcastEvery30Iterations ==
    loopBroadcasts = iteration \div BROADCAST_EVERY

(* C2: every loop iteration increases gameState.tick by exactly 1, whether
   or not it broadcasts. *)
C2_TickPlusOnePerIteration ==
    [][iteration' = iteration + 1 => gameState'.tick = gameState.tick + 1]_vars

(* C3: a gameState snapshot is emitted to all clients only by the tick
   loop; handling a command never emits one. *)
C3_CommandNeverBroadcasts ==
    lastOp = "command" => Snapshots = {}

(* C4: a command from a joined player leaves gameState (tick, entities,
   players) exactly as it was. *)
C4_CommandLeavesGameState ==
    [][(lastOp' = "command" /\ lastSocket' \in Joined)
          => gameState' = gameState]_vars

(* C5: a command of an unknown kind invokes no handler, raises no error and
   leaves gameState unchanged. *)
C5_UnknownKindDiscarded ==
    [][(lastOp' = "command" /\ lastCommand'.present
            /\ lastCommand'.type \notin KnownTypes)
          => /\ invoked' = "none"
             /\ error' = "none"
             /\ gameState' = gameState]_vars

(* C6: no command object, whatever its kind and with or without data, makes
   an error leave the command handler, and the loop keeps running after it. *)
C6_NoCommandErrorEscapes ==
    (lastOp = "command" /\ lastCommand.present) => (error = "none" /\ alive)

(* C7: the snapshot a join sends to the joining connection contains the
   joining player, keyed by the connection id; a join that stores a player
   sends such a snapshot. *)
C7_JoinSnapshotHasJoiner ==
    lastOp = "join" =>
        /\ \A m \in Snapshots :
              m.to = lastSocket =>
                 /\ lastSocket \in DOMAIN m.payload.players
                 /\ m.payload.players[lastSocket].id = lastSocket
        /\ error = "none" => \E m \in Snapshots : m.to = lastSocket

C7_Witness ==
    /\ lastOp = "join"
    /\ error = "none"
    /\ \E m \in Snapshots :
          /\ m.to = lastSocket
          /\ DOMAIN m.payload.players = Sockets

(* What C8 says of the messages of a join: the snapshot goes to the joiner
   and to nobody else, every other connected client gets a playerJoin and
   nothing else, the joiner gets no playerJoin. *)
JoinSends ==
    /\ \A m \in out :
          \/ m.event = "gameState" /\ m.to = lastSocket
          \/ m.event = "playerJoin" /\ m.to # lastSocket
                /\ m.payload.player.id = lastSocket
    /\ error = "none" =>
          /\ \E m \in Snapshots : m.to = lastSocket
          /\ \A s \in Connected \ {lastSocket} :
                \E m \in out : m.to = s /\ m.event = "playerJoin"

(* C8: a join sends the snapshot to the joiner only and a playerJoin to
   every other connected client only, and does not change the tick. *)
C8_JoinSnapshotToJoinerOnly ==
    [][lastOp' = "join" =>
          /\ JoinSends'
          /\ gameState'.tick = gameState.tick]_vars

C8_Witness ==
    /\ lastOp = "join"
    /\ error = "none"
    /\ Connected = Sockets
    /\ gameState.tick > 0
    /\ \E m \in out : m.event = "playerJoin"

(* C9: a disconnect of a joined player removes its id from gameState.players
   and notifies every other connected client with playerLeave carrying the
   id; an id that is not in gameState.players is in no snapshot and enters
   gameState.players only by a join of that connection. *)
C9_LeftPlayerStaysAbsent ==
    [][\A s \in Sockets :
          /\ (lastOp' = "disconnect" /\ lastSocket' = s
                  /\ s \in DOMAIN gameState.players)
                => /\ s \notin DOMAIN gameState'.players
                   /\ out' = {Msg(t, "playerLeave", [playerId |-> s]) :
                                 t \in Connected \ {s}}
          /\ (s \notin DOMAIN gameState.players
                  /\ ~(lastOp' = "join" /\ lastSocket' = s))
                => /\ s \notin DOMAIN gameState'.players
                   /\ \A m \in Snapshots' : s \notin DOMAIN m.payload.players
          /\ conn'[s] = "closed" => s \notin DOMAIN gameState'.players
      ]_vars

(* A joined player has just disconnected and the remaining client was told *)
C9_Witness ==
    /\ lastOp = "disconnect"
    /\ conn[lastSocket] = "closed"
    /\ lastSocket \notin DOMAIN gameState.players
    /\ Joined # {}
    /\ \E m \in out :
          /\ m.event = "playerLeave"
          /\ m.payload.playerId = lastSocket
          /\ m.to \in Joined

(* C10: a command of a connection without a player record invokes no
   handler, changes no state, emits nothing and raises no error; a
   disconnect of a connection without a player record changes no state,
   emits no playerLeave and raises no error. *)
C10_NoPlayerNoOp ==
    [][/\ (lastOp' = "command" /\ lastSocket' \notin Joined)
             => /\ invoked' = "none"
                /\ out' = {}
                /\ error' = "none"
                /\ alive'
                /\ gameState' = gameState
                /\ players' = players
       /\ (lastOp' = "disconnect" /\ lastSocket' \notin Joined)
             => /\ out' = {}
                /\ error' = "none"
                /\ alive'
                /\ gameState' = gameState
                /\ players' = players
      ]_vars

(* A move command without data from a connection that never joined, while
   another client is connected *)
C10_Witness ==
    /\ lastOp = "command"
    /\ lastSocket \notin Joined
    /\ lastCommand.type = "move"
    /\ ~lastCommand.hasData
    /\ Connected = Sockets
    /\ Joined # {}

---------------------------------------------------------------------------
(* Properties of the server loop and of command dispatch *)

(* C11: every loop iteration invokes the system pipeline (SystemManager.update)
   once, so the last call on the entity side after an iteration is update. *)
C11_TickInvokesPipeline ==
    lastOp = "updateGame" => (ecsOp = "update" /\ calls # <<>>)

(* C12: the loop follows Idle -> Running -> (Paused <-> Running) -> Stopped:
   a running loop (a timer is set, the process is up) can take a step that
   leaves it without a ticking timer. *)
C12_RunningCanBeLeft ==
    (alive /\ timers > 0) => ENABLED (LoopNext /\ timers' = 0)

(* C13: per connection, the handler calls follow the arrivals: each call is
   for an arrival of that connection, to the handler of that arrival's kind,
   and the calls come in the order of the arrivals they are for. *)
C13_FifoPerConnection ==
    \A s \in Sockets :
        LET d == dispatched[s]
        IN  /\ \A i \in 1..Len(d) :
                  /\ d[i][1] \in 1..Len(arrived[s])
                  /\ d[i][2] = arrived[s][d[i][1]]
            /\ \A i, j \in 1..Len(d) : i < j => d[i][1] < d[j][1]

(* Two calls on one connection for different kinds, a call on the other
   connection and a loop iteration among them *)
C13_Witness ==
    \E s, t \in Sockets :
        /\ s # t
        /\ Len(dispatched[s]) = 2
        /\ dispatched[s][1][2] # dispatched[s][2][2]
        /\ Len(dispatched[t]) = 1
        /\ iteration = 1

---------------------------------------------------------------------------
(* Properties of the entity factory and the entity store *)

NoDuplicates(seq) == \A i, j \in 1..Len(seq) : i # j => seq[i] # seq[j]

(* C14: handles are never reused: the handles the factory has returned are
   pairwise different, whatever was added to, removed from or cleared out of
   the store in between, and a create returns the handle it issued last. *)
C14_HandlesNeverReused ==
    /\ NoDuplicates(issued)
    /\ ecsOp \in {"createEntity", "createUnit"} =>
           /\ returned = issued[Len(issued)]
           /\ returned \notin retired

(* A create after an entity was removed from the store *)
C14_Witness ==
    /\ ecsOp = "createEntity"
    /\ Len(issued) = 2
    /\ retired = {issued[1]}

(* C15: getEntitiesWithComponents(kinds) returns exactly the stored entities
   that carry every kind of the list, each once. *)
C15_QueryExact ==
    ecsOp = "getEntitiesWithComponents" =>
        /\ NoDuplicates(result)
        /\ Range(result) =
               {e \in Range(entities) : Range(argKinds) \subseteq DOMAIN objects[e]}

(* A query for two kinds over a store of two entities, one of which has both *)
C15_Witness ==
    /\ ecsOp = "getEntitiesWithComponents"
    /\ argKinds = <<"position", "velocity">>
    /\ Len(entities) = 2
    /\ Len(result) = 1

IndexOf(seq, e) == CHOOSE i \in 1..Len(seq) : seq[i] = e

(* C16: two query results with no addEntity, removeEntity or clear between
   them list the entities they share in the same relative order. *)
C16_QueryOrderStable ==
    \A a, b \in Range(result) \cap Range(prevResult) :
        IndexOf(result, a) < IndexOf(result, b)
            <=> IndexOf(prevResult, a) < IndexOf(prevResult, b)

(* Two results sharing two entities, the later one of a query by kind *)
C16_Witness ==
    /\ ecsOp = "getEntitiesWithComponents"
    /\ argKinds = <<"position">>
    /\ Len(result) = 2
    /\ Len(prevResult) = 2

(* C17: directly after removeEntity(id), getEntity(id) is undefined, no query
   result and no getAllEntities result holds id, every other stored entity is
   still stored in its place, and an id that was not stored changes nothing. *)
C17_RemovalImmediate ==
    [][ecsOp' = "removeEntity" =>
          /\ getEntity(entities', argId') = "undefined"
          /\ \A k \in KindLists :
                 argId' \notin Range(getEntitiesWithComponents(entities', objects', k))
          /\ argId' \notin Range(getAllEntities(entities'))
          /\ \A e \in Range(entities) \ {argId'} :
                 getEntity(entities', e) = e
          /\ Range(entities') \subseteq Range(entities)
          /\ argId' \notin Range(entities) => entities' = entities]_vars

(* removeEntity of one of two stored entities *)
C17_Witness ==
    /\ ecsOp = "removeEntity"
    /\ argId \in retired
    /\ Len(entities) = 1

(* C18: createUnit(x, y, unitType, playerId) returns a fresh entity with
   exactly position (x, y, 0), health 100 of 100, sprite and unit
   (unitType, playerId, not selected). *)
C18_UnitBundle ==
    ecsOp = "createUnit" =>
        LET c == objects[returned]
        IN  /\ \A i \in 1..(Len(issued) - 1) : issued[i] # returned
            /\ DOMAIN c = {"position", "health", "sprite", "unit"}
            /\ c["position"].x = argUnit.x
            /\ c["position"].y = argUnit.y
            /\ c["position"].z = 0
            /\ c["health"].current = 100
            /\ c["health"].maximum = 100
            /\ c["unit"].unitType = argUnit.unitType
            /\ c["unit"].playerId = argUnit.playerId
            /\ c["unit"].selected = FALSE

(* A unit created after another entity *)
C18_Witness ==
    /\ ecsOp = "createUnit"
    /\ Len(issued) = 2
    /\ returned = issued[2]

---------------------------------------------------------------------------
(* Properties of the system pipeline *)

(* C19: in an update, every entity handed to a system carries, at the moment
   of the call, every kind the system requires. *)
C19_OnlyMatchingEntities ==
    ecsOp = "update" =>
        \A i \in 1..Len(calls) :
            \A e \in Range(calls[i].entities) :
                Range(calls[i].requiredComponents) \subseteq DOMAIN calls[i].pre[e]

(* MovementSystem called over a store of two entities of which one has no
   velocity *)
C19_Witness ==
    /\ ecsOp = "update"
    /\ Len(entities) = 2
    /\ \E i \in 1..Len(calls) :
           /\ calls[i].system = "MovementSystem"
           /\ Len(calls[i].entities) = 1
           /\ \E e \in Range(entities) : "velocity" \notin DOMAIN calls[i].pre[e]

(* C20: an update calls the registered systems once each in the order they
   were added, and each system is handed the entities as the system before
   it left them; the last system's result is what update leaves. *)
C20_PipelineOrder ==
    ecsOp = "update" =>
        /\ Len(calls) = Len(systems)
        /\ \A i \in 1..Len(calls) :
               /\ calls[i].system = systems[i].name
               /\ calls[i].entities =
                      getEntitiesWithComponents(entities, calls[i].pre,
                                                calls[i].requiredComponents)
        /\ \A i \in 1..(Len(calls) - 1) : calls[i + 1].pre = calls[i].post
        /\ calls # <<>> => calls[Len(calls)].post = objects

(* CollisionSystem called after MovementSystem moved an entity *)
C20_Witness ==
    /\ ecsOp = "update"
    /\ Len(calls) = 2
    /\ calls[1].system = "MovementSystem"
    /\ calls[1].post # calls[1].pre
    /\ calls[2].system = "CollisionSystem"
    /\ calls[2].entities # <<>>
    /\ calls[2].pre = calls[1].post

---------------------------------------------------------------------------
(* Properties of the systems called directly *)

(* The one system.update call of the last direct call *)
TheCall == calls[1]

(* C21: a MovementSystem.update over entities with position and velocity
   leaves each with position = position before + velocity * deltaTime on x,
   y and z, the velocity as it was, and every other entity untouched. *)
C21_MovementAddsVelocity ==
    (ecsOp = "MovementSystem" /\ returned = "none") =>
        /\ \A e \in Range(TheCall.entities) :
               LET before == TheCall.pre[e]["position"]
                   velocity == TheCall.pre[e]["velocity"]
                   after == TheCall.post[e]["position"]
               IN  /\ after.x = before.x + velocity.x * TheCall.deltaTime
                   /\ after.y = before.y + velocity.y * TheCall.deltaTime
                   /\ after.z = before.z + velocity.z * TheCall.deltaTime
                   /\ TheCall.post[e]["velocity"] = velocity
        /\ \A e \in DOMAIN TheCall.pre \ Range(TheCall.entities) :
               TheCall.post[e] = TheCall.pre[e]

(* The second of two updates with deltaTime 1 of the entity that started at
   (0, 0, 0) with velocity (10, 5, 0), next to an entity with a z velocity *)
C21_Witness ==
    /\ ecsOp = "MovementSystem"
    /\ returned = "none"
    /\ steps = 2
    /\ TheCall.deltaTime = 1
    /\ Len(TheCall.entities) = 2
    /\ \E e \in Range(TheCall.entities) :
           /\ TheCall.pre[e]["position"] = PositionComponent(10, 5, 0)
           /\ TheCall.post[e]["position"] = PositionComponent(20, 10, 0)
    /\ \E e \in Range(TheCall.entities) : TheCall.pre[e]["velocity"].z # 0

(* C22: a MovementSystem.update whose list holds an entity with position and
   no velocity completes normally and leaves that entity as it was. *)
C22_NoVelocityLeftAlone ==
    ecsOp = "MovementSystem" =>
        \A e \in Range(TheCall.entities) :
            ("position" \in DOMAIN TheCall.pre[e]
                 /\ "velocity" \notin DOMAIN TheCall.pre[e]) =>
                /\ returned = "none"
                /\ TheCall.post[e] = TheCall.pre[e]

(* C23: after a HealthSystem.update every entity of its list that has health
   has current <= maximum, whatever its health was before. *)
C23_HealthWithinMaximum ==
    ecsOp = "HealthSystem" =>
        \A e \in Range(TheCall.entities) :
            "health" \in DOMAIN TheCall.post[e] =>
                TheCall.post[e]["health"].current <= TheCall.post[e]["health"].maximum

(* C24: checkCollision(A, B) = checkCollision(B, A). *)
C24_CollisionSymmetric ==
    ecsOp = "checkCollision" =>
        ((returned = "true") <=> checkCollision(objects, result[2], result[1]))

(* A colliding pair whose sprites differ in size *)
C24_Witness ==
    /\ ecsOp = "checkCollision"
    /\ returned = "true"
    /\ objects[result[1]]["sprite"].width # objects[result[2]]["sprite"].width

Max(a, b) == IF a > b THEN a ELSE b

(* The open intervals (lo1, lo1 + len1) and (lo2, lo2 + len2) share a point *)
Overlap(lo1, len1, lo2, len2) == Max(lo1, lo2) < Min(lo1 + len1, lo2 + len2)

(* C25: two entities collide exactly when their rectangles (position as the
   top-left corner, sprite width and height as the extents) overlap strictly
   on both axes; touching along an edge or at a corner is no collision. *)
C25_CollisionIsStrictOverlap ==
    ecsOp = "checkCollision" =>
        LET posA == objects[result[1]]["position"]
            posB == objects[result[2]]["position"]
            spriteA == objects[result[1]]["sprite"]
            spriteB == objects[result[2]]["sprite"]
        IN  (returned = "true") <=>
                /\ Overlap(posA.x, spriteA.width, posB.x, spriteB.width)
                /\ Overlap(posA.y, spriteA.height, posB.y, spriteB.height)

(* A 32x32 box at (0, 0) and one at (32, 0): they touch along an edge *)
C25_Witness ==
    /\ ecsOp = "checkCollision"
    /\ returned = "false"
    /\ objects[result[1]]["position"] = PositionComponent(0, 0, 0)
    /\ objects[result[2]]["position"] = PositionComponent(32, 0, 0)
    /\ objects[result[1]]["sprite"].width = 32

(* C29: a HealthSystem.update with deltaTime dt leaves every entity of its
   list with current = min(maximum, current before + 1 * dt), also when the
   current before was at or above the maximum. *)
C29_RegenerationIsClampedSum ==
    (ecsOp = "HealthSystem" /\ returned = "none") =>
        \A e \in Range(TheCall.entities) :
            LET before == TheCall.pre[e]["health"]
                after == TheCall.post[e]["health"]
            IN  after.current =
                    Min(before.maximum,
                        before.current + REGENERATION_RATE * TheCall.deltaTime)

(* C30: an entity whose current is <= 0 when a HealthSystem.update begins is
   reported dead by that update. *)
C30_DeadIsReported ==
    (ecsOp = "HealthSystem" /\ returned = "none") =>
        \A e \in Range(TheCall.entities) :
            TheCall.pre[e]["health"].current <= 0 =>
                <<"died", e>> \in Range(TheCall.log)

---------------------------------------------------------------------------
(* Properties of the client's NetworkManager *)

(* C26: an inbound message is appended once to the message queue with its
   kind and payload, and every handler registered for its kind is called once
   with that payload, in registration order, as part of the arrival; when no
   handler is registered for the kind it is queued and nothing is called. *)
C26_QueuedAndDispatchedOnce ==
    [][clientOp' = "message" =>
          /\ Len(messageQueue') = Len(messageQueue) + 1
          /\ SubSeq(messageQueue', 1, Len(messageQueue)) = messageQueue
          /\ messageQueue'[Len(messageQueue')].type = cArg'.type
          /\ messageQueue'[Len(messageQueue')].data = cArg'.data
          /\ messageHandlers' = messageHandlers
          /\ handlerCalls' =
                 IF cArg'.type \in DOMAIN messageHandlers
                 THEN [i \in 1..Len(messageHandlers[cArg'.type]) |->
                          <<messageHandlers[cArg'.type][i], cArg'.data>>]
                 ELSE <<>>]_vars

(* The second message, of a kind with two different handlers, while another
   kind has a handler too *)
C26_Witness ==
    /\ clientOp = "message"
    /\ Len(messageQueue) = 2
    /\ Len(handlerCalls) = 2
    /\ handlerCalls[1][1] # handlerCalls[2][1]
    /\ Cardinality(DOMAIN messageHandlers) = 2

(* C27: sendCommand and sendMessage never throw and change no client state;
   while the client holds no connected socket (before connect, after the
   socket's disconnect event, after disconnect()) they emit nothing, and
   while it does they emit exactly one message with what they were given. *)
C27_SendIsFireAndForget ==
    [][clientOp' \in {"sendCommand", "sendMessage"} =>
          /\ cError' = "none"
          /\ <<cSockets, cSocket, cConnected, cPlayerId, messageHandlers, messageQueue>>'
                 = <<cSockets, cSocket, cConnected, cPlayerId, messageHandlers,
                     messageQueue>>
          /\ IF cSocket = 0 \/ cSockets[cSocket].state # "connected"
             THEN cOut' = <<>>
             ELSE cOut' = <<[socket |-> cSocket, event |-> cArg'.type,
                             data |-> cArg'.data]>>]_vars

(* A sendCommand after the disconnect event of a socket that had connected *)
C27_Witness ==
    /\ clientOp = "sendCommand"
    /\ cSocket # 0
    /\ cSockets[cSocket].state = "down"
    /\ cSockets[cSocket].promise = "resolved"
    /\ cOut = <<>>

(* C28: the promise of every connect() is settled no later than 5 seconds
   after the call. *)
C28_SettledWithinTimeout ==
    \A i \in 1..Len(cSockets) :
        now > cSockets[i].started + CONNECT_TIMEOUT_MS =>
            cSockets[i].promise # "pending"

(* C31: SystemManager.update leaves the store's entity ids and every entity's
   set of component kinds as they were, whichever systems are registered and
   whether or not an entity is reported dead or colliding. *)
C31_SystemsKeepMembership ==
    [][ecsOp' = "update" =>
          /\ entities' = entities
          /\ DOMAIN objects' = DOMAIN objects
          /\ \A e \in DOMAIN objects : DOMAIN objects'[e] = DOMAIN objects[e]]_vars

(* An update that reported a stored entity dead *)
C31_Witness ==
    /\ ecsOp = "update"
    /\ Len(entities) = 2
    /\ \E i \in 1..Len(calls) :
           /\ calls[i].system = "HealthSystem"
           /\ calls[i].log # <<>>
           /\ calls[i].post[calls[i].log[1][2]]["health"].current <= 0

(* The systems of a list whose name is not the given one, in the list's order *)
RECURSIVE SystemsNotNamed(_, _)
SystemsNotNamed(list, systemName) ==
    IF list = <<>> THEN <<>>
    ELSE IF Head(list).name = systemName
         THEN SystemsNotNamed(Tail(list), systemName)
         ELSE <<Head(list)>> \o SystemsNotNamed(Tail(list), systemName)

SystemNames(list) == {list[i].name : i \in 1..Len(list)}

(* C32: removeSystem(name) takes out every registered system of that name and
   keeps the others in their order (nothing changes when none has the name);
   a name enters the list only by addSystem, and update invokes exactly the
   registered systems, so none of a removed name. *)
C32_RemoveSystemByName ==
    [][/\ ecsOp' = "removeSystem" =>
              /\ systems' = SystemsNotNamed(systems, argId')
              /\ argId' \notin SystemNames(systems')
              /\ argId' \notin SystemNames(systems) => systems' = systems
       /\ SystemNames(systems') \ SystemNames(systems) # {} => ecsOp' = "addSystem"
       /\ ecsOp' = "update" =>
              \A i \in 1..Len(calls') : calls'[i].system \in SystemNames(systems)]_vars

(* A removal that took out two systems of one name *)
C32_Witness ==
    /\ ecsOp = "removeSystem"
    /\ Len(prevSystems) = 2
    /\ SystemNames(prevSystems) = {argId}
    /\ systems = <<>>

(* The rectangles of two entities share an inner point *)
Overlapping(objs, a, b) ==
    /\ Overlap(objs[a]["position"].x, objs[a]["sprite"].width,
               objs[b]["position"].x, objs[b]["sprite"].width)
    /\ Overlap(objs[a]["position"].y, objs[a]["sprite"].height,
               objs[b]["position"].y, objs[b]["sprite"].height)

(* C33: one CollisionSystem.update over a list of distinct entities runs the
   collision hook once for every unordered pair of them that overlaps, and
   for nothing else: no entity with itself, no pair twice, no pair that does
   not overlap. *)
C33_HookOncePerOverlappingPair ==
    ecsOp = "CollisionSystem" =>
        LET ents == Range(TheCall.entities)
            log == TheCall.log
        IN  /\ returned = "none"
            /\ \A k \in 1..Len(log) :
                   /\ log[k][1] = "collision"
                   /\ {log[k][2], log[k][3]} \subseteq ents
                   /\ log[k][2] # log[k][3]
                   /\ Overlapping(TheCall.pre, log[k][2], log[k][3])
            /\ \A a, b \in ents :
                   a # b =>
                       Cardinality({k \in 1..Len(log) : {log[k][2], log[k][3]} = {a, b}})
                           = IF Overlapping(TheCall.pre, a, b) THEN 1 ELSE 0

(* An update over two overlapping boxes of different sizes *)
C33_Witness ==
    /\ ecsOp = "CollisionSystem"
    /\ Len(TheCall.entities) = 2
    /\ Len(TheCall.log) = 1
    /\ \E a, b \in Range(TheCall.entities) :
           TheCall.pre[a]["sprite"].width # TheCall.pre[b]["sprite"].width

(* C34: the messages the processMessages calls have returned so far, followed
   by the messages still queued, are the messages that arrived, in arrival
   order: each arrived message is returned by exactly one call, after which
   the queue is empty. *)
C34_EveryMessageHandedOutOnce ==
    /\ handedOut \o messageQueue = arrivals
    /\ clientOp = "processMessages" => messageQueue = <<>>

(* Two processMessages calls that returned one message each *)
C34_Witness ==
    /\ clientOp = "processMessages"
    /\ Len(handedOut) = 2
    /\ handedOut[1] # handedOut[2]
    /\ inbound = 2

(* C35: the camera zoom stays within [0.1, 3.0] under moveCamera, setZoom and
   setCamera, from the initial zoom 1.0. *)
C35_ZoomWithinLimits ==
    MIN_ZOOM <= camera.zoom /\ camera.zoom <= MAX_ZOOM

(* C36: the players map and gameState.players always have the same keys, each
   key the id of an open connection under which one Player with that id is
   stored; a key enters only by a join of that connection, also when the
   connection joins again. *)
C36_PlayerMapsAgree ==
    /\ [](/\ DOMAIN players = DOMAIN gameState.players
          /\ \A s \in DOMAIN players :
                 /\ s \in Sockets
                 /\ conn[s] = "open"
                 /\ players[s].id = s
                 /\ gameState.players[s] = players[s])
    /\ [][\A s \in DOMAIN players' \ DOMAIN players :
              lastOp' = "join" /\ lastSocket' = s /\ error' = "none"]_vars

(* A join after which the joiner is the only player while another connection
   is closed *)
C36_Witness ==
    /\ lastOp = "join"
    /\ error = "none"
    /\ DOMAIN players = {lastSocket}
    /\ DOMAIN gameState.players = {lastSocket}
    /\ \E s \in Sockets : conn[s] = "closed"

(* C37: the client emits join, and becomes connected, only in the step that
   resolves a pending connect(): never for a connect() that was rejected
   before, and never a second time for one that was resolved. *)
C37_JoinOnlyOnSuccess ==
    [][LET resolving == \E i \in 1..Len(cSockets) :
                            /\ cSockets[i].promise = "pending"
                            /\ cSockets'[i].promise = "resolved"
       IN  /\ (\E k \in 1..Len(cOut') : cOut'[k].event = "join") => resolving
           /\ (cConnected' /\ ~cConnected) => resolving]_vars

(* C38: on every connection a command is emitted only after the join of that
   connection was emitted, so the join is the first thing the server gets on
   it. *)
C38_JoinBeforeCommands ==
    [][\A k \in 1..Len(cOut') :
           cOut'[k].event = "command" =>
               /\ cSockets[cOut'[k].socket].joined
               /\ cSockets[cOut'[k].socket].state = "connected"]_vars

(* A command sent on the second connection of the client *)
C38_Witness ==
    /\ clientOp = "sendCommand"
    /\ Len(cOut) = 1
    /\ cOut[1].socket = 2
    /\ cSockets[2].joined
    /\ cSockets[1].state = "closed"

(* C39: however often start() is called, one interval timer at most drives
   the loop, and each of its callbacks is one loop iteration. *)
C39_OneTickTimer ==
    /\ [](timers <= 1)
    /\ [][lastOp' = "updateGame" => timers = 1 /\ iteration' = iteration + 1]_vars

(* A second start() while the loop is running, its error caught by the
   caller *)
C39_Witness ==
    /\ lastOp = "start"
    /\ error = "ERR_SERVER_ALREADY_LISTEN"
    /\ alive
    /\ timers = 1
    /\ iteration = 2

(* C40: under start(), stop() and frame callbacks, stop() from inside the
   update callback included, at most one animation frame is pending, a
   start() while running requests none, and no phase of update (input,
   messages, render) runs while the client is stopped. *)
C40_OneFrameAndNoWorkWhenStopped ==
    /\ [](/\ Cardinality(pending) <= 1
          /\ \A k \in 1..Len(work) : work[k].isRunning)
    /\ [][(loopOp' = "start" /\ isRunning) => (pending' = pending /\ work' = <<>>)]_vars

====
